---- MODULE Spec2Model ----
\* Chiron: the orchestrator's subject management and workflow state, the
\* relational store (SQLite), the vector store, the tool registry with its
\* dispatcher, and the tool-calling loop of BaseAgent.run.
EXTENDS Integers, Sequences, FiniteSets, TLC

\* The fields of the records and dicts of the model.  Every record of the model
\* lists its fields in this one order.
FieldOrder ==
    [active |-> 1, active_subject |-> 2, arg |-> 3, base |-> 4, before |-> 5,
     bogus |-> 6, chunk |-> 7, confidence |-> 8, content |-> 9, contradictions |-> 10,
     correct |-> 11, created_date |-> 12, db |-> 13, default |-> 14, depth |-> 15,
     description |-> 16, error |-> 17, fact_count |-> 18, goal_seq |-> 19, id |-> 20,
     input |-> 21, input_schema |-> 22, is_goal_critical |-> 23, item |-> 24,
     items |-> 25, json |-> 26, key |-> 27, knowledge_nodes |-> 28,
     last_validated |-> 29, learning_goals |-> 30, lesson_id |-> 31, lessons |-> 32,
     log |-> 33, messages |-> 34, min_confidence |-> 35, name |-> 36, next |-> 37,
     next_review |-> 38, node_id |-> 39, node_seq |-> 40, nodes |-> 41, op |-> 42,
     optional |-> 43, parent_id |-> 44, prerequisites |-> 45, properties |-> 46,
     purpose_statement |-> 47, py |-> 48, query |-> 49, question_hash |-> 50,
     raised |-> 51, required |-> 52, res |-> 53, research_complete |-> 54,
     response |-> 55, responses |-> 56, result |-> 57, role |-> 58, settings |-> 59,
     shared_with_subjects |-> 60, source_score |-> 61, source_url |-> 62,
     status |-> 63, subject_id |-> 64, target_depth |-> 65, text |-> 66,
     timestamp |-> 67, title |-> 68, tool_results |-> 69, tool_use_id |-> 70,
     top_k |-> 71, topic_path |-> 72, total_facts |-> 73, type |-> 74, under |-> 75,
     v |-> 76, value |-> 77, vs |-> 78]

VARIABLES
    db,                 \* Database: the rows of the SQLite file
    vs,                 \* VectorStore: the chunks of the collection, by id
    state,              \* Orchestrator._state
    active_subject_id,  \* Orchestrator._active_subject_id
    agents,             \* the lazily constructed agents of the orchestrator
    messages,           \* BaseAgent.messages of the agent held.agent
    held,               \* whose history messages is, and the other agents' histories
    pc,                 \* position of the thread of control
    caller,             \* the orchestrator operation a running agent turn belongs to
    run_base,           \* Len(messages) when the running turn was entered
    model_calls,        \* calls of messages.create in the running turn
    responses,          \* what those calls returned, in call order
    exec_log,           \* the executor calls of each pass of the loop, in call order
    ret,                \* outcome of the last completed operation
    replaced,           \* the stored entries the step just taken overwrote
    main                \* cli.py research_start: the main thread beside the research thread

vars == <<db, vs, state, active_subject_id, agents, messages, held, pc, caller,
          run_base, model_calls, responses, exec_log, ret, replaced, main>>

----------------------------------------------------------------------------
\* Bounds of the model.

MaxTreeNodes == 3   \* nodes of the trees the progress display is built from
MaxRowId == 2       \* rows ever inserted into knowledge_nodes
MaxGoalSeq == 2     \* ids ever taken from the sequence of learning_goals
MaxIters == 2       \* SpecLoop: tool-requesting responses within one agent turn
MaxHistory == 3     \* SpecLoop: a turn starts only while the history is shorter
MaxOrchIters == 1   \* Spec: tool-requesting responses within one agent turn
MaxOrchHistory == 1 \* Spec: a turn starts only while the history is shorter
MaxChunks == 3      \* chunks held by the collection when it is written directly
MaxAssessHistory == 3 \* the assessment agent is asked on while its history is shorter

\* Input alphabets.
Subjects == {"s1", "s2"}
Purposes == {"p1"}
Titles == {"T1"}
Contents == {"c1"}
NodeTitles == {"T1", "T2"}
\* Topic paths of stored facts: the titles, and a hierarchical path.
TopicPaths == {"T1", "T2", "T1/T2"}

\* Python's None where the other values are strings.
None == "None"

----------------------------------------------------------------------------
\* Python values, tagged with their type (what json.dumps looks at).

PyNone == [py |-> "None"]
PyStr(s) == [py |-> "str", v |-> s]
PyInt(n) == [py |-> "int", v |-> n]
PyBool(b) == [py |-> "bool", v |-> b]
PyDatetime == [py |-> "datetime"]
PyDict(f) == [py |-> "dict", v |-> f]
PyList(q) == [py |-> "list", v |-> q]
OptStr(s) == IF s = None THEN PyNone ELSE PyStr(s)
OptInt(n) == IF n = 0 THEN PyNone ELSE PyInt(n)

----------------------------------------------------------------------------
\* storage/database.py

\* The tables right after Database.initialize(): every table exists and is empty.
EmptyDb ==
    [goal_seq |-> 0, knowledge_nodes |-> {}, learning_goals |-> {}, lessons |-> {},
     node_seq |-> 0, responses |-> {}, settings |-> {}]

HasGoal(d, subject_id) == \E g \in d.learning_goals : g.subject_id = subject_id

GoalRow(d, subject_id) == CHOOSE g \in d.learning_goals : g.subject_id = subject_id

\* A connection manager that closes without rolling back.
_get_connection_NoRollback(before, txn, raised) == txn

\* Database._get_connection: commit when the body returns, rollback when it raises.
_get_connection(before, txn, raised) == IF raised THEN before ELSE txn

\* cli/progress.py: the deepest level the display shows.
MAX_DISPLAY_DEPTH == 2

\* Database.get_setting
get_setting(d, key) ==
    IF \E r \in d.settings : r.key = key
    THEN (CHOOSE r \in d.settings : r.key = key).value
    ELSE None

\* Database.set_setting: upsert on the primary key.
set_setting(d, key, value) ==
    [d EXCEPT !.settings =
        {r \in d.settings : r.key # key} \cup {[key |-> key, value |-> value]}]

\* save_learning_goal as INSERT OR REPLACE: the conflicting row is dropped and a
\* new row is inserted under the next id.
save_learning_goal_Replace(d, goal) ==
    LET id == d.goal_seq + 1
        row == [id |-> id, purpose_statement |-> goal.purpose_statement,
                subject_id |-> goal.subject_id, target_depth |-> goal.target_depth]
    IN [db |-> [d EXCEPT !.learning_goals =
                    {g \in @ : g.subject_id # goal.subject_id} \cup {row},
                         !.goal_seq = id],
        id |-> id]

\* Database.save_learning_goal: insert, or update in place on a subject_id conflict.
\* goal = [subject_id, purpose_statement, target_depth]; returns [db, id].
\* The INSERT takes the next AUTOINCREMENT id before the conflict on subject_id
\* is found, so the sequence (goal_seq) advances on the update path too; the row
\* keeps its id, which _get_goal_id returns.
save_learning_goal(d, goal) ==
    IF HasGoal(d, goal.subject_id)
    THEN LET old == GoalRow(d, goal.subject_id)
             new == [old EXCEPT !.purpose_statement = goal.purpose_statement,
                                !.target_depth = goal.target_depth]
         IN [db |-> [d EXCEPT !.learning_goals = (@ \ {old}) \cup {new},
                              !.goal_seq = @ + 1],
             id |-> old.id]
    ELSE LET id == d.goal_seq + 1
             row == [id |-> id, purpose_statement |-> goal.purpose_statement,
                     subject_id |-> goal.subject_id, target_depth |-> goal.target_depth]
         IN [db |-> [d EXCEPT !.learning_goals = @ \cup {row}, !.goal_seq = id], id |-> id]

\* Database.save_knowledge_node: update when node.id is set (0 stands for None),
\* insert under the next AUTOINCREMENT id otherwise.  Returns [db, id].
save_knowledge_node(d, node) ==
    IF node.id # 0
    THEN [db |-> [d EXCEPT !.knowledge_nodes =
                    {IF n.id = node.id THEN node ELSE n : n \in @}],
          id |-> node.id]
    ELSE LET id == d.node_seq + 1
         IN [db |-> [d EXCEPT !.knowledge_nodes = @ \cup {[node EXCEPT !.id = id]},
                              !.node_seq = id],
             id |-> id]

\* The cascade with a last statement that drops the active-subject row whatever
\* its value.
DeleteStatement_ClearsAnySetting(d, subject_id, i) ==
    CASE i = 1 -> [d EXCEPT !.responses =
                     {r \in @ : ~ \E l \in d.lessons :
                                    l.subject_id = subject_id /\ l.id = r.lesson_id}]
      [] i = 2 -> [d EXCEPT !.lessons = {l \in @ : l.subject_id # subject_id}]
      [] i = 3 -> [d EXCEPT !.knowledge_nodes = {n \in @ : n.subject_id # subject_id}]
      [] i = 4 -> [d EXCEPT !.learning_goals = {g \in @ : g.subject_id # subject_id}]
      [] i = 5 -> [d EXCEPT !.settings = {r \in @ : r.key # "active_subject"}]

\* The DELETE statements of Database.delete_subject, in the order of the source.
DeleteStatement(d, subject_id, i) ==
    CASE i = 1 -> [d EXCEPT !.responses =
                     {r \in @ : ~ \E l \in d.lessons :
                                    l.subject_id = subject_id /\ l.id = r.lesson_id}]
      [] i = 2 -> [d EXCEPT !.lessons = {l \in @ : l.subject_id # subject_id}]
      [] i = 3 -> [d EXCEPT !.knowledge_nodes = {n \in @ : n.subject_id # subject_id}]
      [] i = 4 -> [d EXCEPT !.learning_goals = {g \in @ : g.subject_id # subject_id}]
      [] i = 5 -> [d EXCEPT !.settings =
                     {r \in @ : ~ (r.key = "active_subject" /\ r.value = subject_id)}]

NumDeleteStatements == 5

RECURSIVE DeleteStatements(_, _, _)
\* The transaction's view after the first n DELETE statements.
DeleteStatements(d, subject_id, n) ==
    IF n = 0 THEN d
    ELSE DeleteStatement(DeleteStatements(d, subject_id, n - 1), subject_id, n)

\* The cascade run without the SELECT that looks for the learning goal first.
Database_delete_subject_NoSelect(d, subject_id, fail_at) ==
    IF fail_at = 0
    THEN [db |-> _get_connection(d, DeleteStatements(d, subject_id, NumDeleteStatements), FALSE),
          raised |-> FALSE, result |-> TRUE]
    ELSE [db |-> _get_connection(d, DeleteStatements(d, subject_id, fail_at - 1), TRUE),
          raised |-> TRUE, result |-> FALSE]

\* Database.delete_subject.  fail_at = 0: no statement fails; fail_at = i in 1..5:
\* the i-th DELETE raises; fail_at = 6: the commit raises.
\* Returns [db, result, raised].
Database_delete_subject(d, subject_id, fail_at) ==
    IF ~ HasGoal(d, subject_id)
    THEN [db |-> _get_connection(d, d, FALSE), raised |-> FALSE, result |-> FALSE]
    ELSE IF fail_at = 0
    THEN [db |-> _get_connection(d, DeleteStatements(d, subject_id, NumDeleteStatements), FALSE),
          raised |-> FALSE, result |-> TRUE]
    ELSE [db |-> _get_connection(d, DeleteStatements(d, subject_id, fail_at - 1), TRUE),
          raised |-> TRUE, result |-> FALSE]

\* Database.get_knowledge_tree: ORDER BY depth, id.
RECURSIVE SortNodes(_)
SortNodes(S) ==
    IF S = {} THEN <<>>
    ELSE LET first == CHOOSE n \in S : \A m \in S :
                          n.depth < m.depth \/ (n.depth = m.depth /\ n.id <= m.id)
         IN <<first>> \o SortNodes(S \ {first})

RECURSIVE SortById(_)
SortById(S) ==
    IF S = {} THEN <<>>
    ELSE LET first == CHOOSE n \in S : \A m \in S : n.id <= m.id
         IN <<first>> \o SortById(S \ {first})

\* The query with ORDER BY id.
get_knowledge_tree_OrderById(d, subject_id) ==
    SortById({n \in d.knowledge_nodes : n.subject_id = subject_id})

get_knowledge_tree(d, subject_id) ==
    SortNodes({n \in d.knowledge_nodes : n.subject_id = subject_id})

----------------------------------------------------------------------------
\* storage/vector_store.py

\* VectorStore._generate_id: the digest of f"{subject_id}:{topic_path}:{content}".
\* SHA-256 is taken as injective, so the id is the joined string itself.
_generate_id(chunk) ==
    chunk.subject_id \o ":" \o chunk.topic_path \o ":" \o chunk.content

\* store_knowledge writing with the collection's add instead of its upsert: a
\* chunk whose id is already stored is left as it was.
store_knowledge_AddOnly(v, chunk) ==
    LET id == _generate_id(chunk)
    IN IF \E c \in v : c.id = id THEN v ELSE v \cup {[chunk |-> chunk, id |-> id]}

\* VectorStore.store_knowledge: upsert under the generated id.  The metadata
\* written (json.dumps of the contradictions, isoformat of the timestamp) is
\* read back by _metadata_to_chunk with the inverse conversions, so the stored
\* entry is kept as the chunk itself.
store_knowledge(v, chunk) ==
    LET id == _generate_id(chunk)
    IN {c \in v : c.id # id} \cup {[chunk |-> chunk, id |-> id]}

\* The collection's delete called without the subject filter.
VectorStore_delete_subject_NoFilter(v, subject_id) == {}

\* VectorStore.delete_subject
VectorStore_delete_subject(v, subject_id) ==
    {c \in v : c.chunk.subject_id # subject_id}

\* A finite set listed in one fixed order.
RECURSIVE SetToSeq(_)
SetToSeq(S) ==
    IF S = {} THEN <<>>
    ELSE LET x == CHOOSE y \in S : TRUE IN <<x>> \o SetToSeq(S \ {x})

\* collection.query's order of the entries S for a query: nearest first.  An
\* entry whose document is the query text is at distance 0 and precedes the
\* entries with other documents; the rest of the order is the embedding's and
\* the index's, so every such order is possible.
Rankings(S, query) ==
    {r \in [1..Cardinality(S) -> S] :
        /\ \A i, j \in 1..Cardinality(S) : r[i] = r[j] => i = j
        /\ \A i, j \in 1..Cardinality(S) :
              (r[i].chunk.content = query /\ r[j].chunk.content # query) => i < j}

\* search with the subject left out of the where filter.
search_AnySubject(v, query, subject_id, top_k, min_confidence) ==
    LET hits == {c \in v : min_confidence > 0 => c.chunk.confidence >= min_confidence}
        n == IF Cardinality(hits) < top_k THEN Cardinality(hits) ELSE top_k
    IN {SubSeq(r, 1, n) : r \in Rankings(hits, query)}

\* VectorStore.search: the lists collection.query can return for the query: the
\* first top_k of the subject's chunks (with at least min_confidence when that
\* is positive), nearest first.
search(v, query, subject_id, top_k, min_confidence) ==
    LET hits == {c \in v : /\ c.chunk.subject_id = subject_id
                           /\ min_confidence > 0 =>
                                    c.chunk.confidence >= min_confidence}
        n == IF Cardinality(hits) < top_k THEN Cardinality(hits) ELSE top_k
    IN {SubSeq(r, 1, n) : r \in Rankings(hits, query)}

\* The answer the collection gave, `ranking` numbering its possible answers.
NthAnswer(results, ranking) == SetToSeq(results)[(ranking % Cardinality(results)) + 1]

\* VectorStore.count_facts_by_topic: the number of the subject's chunks under
\* each topic path that has one, keyed by the topic-path string.
count_facts_by_topic(v, subject_id) ==
    LET mine == {c \in v : c.chunk.subject_id = subject_id}
    IN [t \in {c.chunk.topic_path : c \in mine} |->
            Cardinality({c \in mine : c.chunk.topic_path = t})]

----------------------------------------------------------------------------
\* tools/: the twelve tool functions and the registry.

TOOL_REGISTRY ==
    {"get_active_subject", "get_knowledge_node", "get_knowledge_tree",
     "get_learning_goal", "get_user_progress", "list_subjects",
     "record_assessment", "save_knowledge_node", "save_learning_goal",
     "set_active_subject", "store_knowledge", "vector_search"}

\* Keyword-only parameters without a default.
Required(name) ==
    CASE name = "get_knowledge_node" -> {"node_id"}
      [] name = "get_knowledge_tree" -> {"subject_id"}
      [] name = "get_learning_goal" -> {"subject_id"}
      [] name = "get_user_progress" -> {"node_id"}
      [] name = "record_assessment" -> {"node_id", "question_hash", "response", "correct"}
      [] name = "save_knowledge_node" -> {"subject_id", "title"}
      [] name = "save_learning_goal" -> {"subject_id", "purpose_statement"}
      [] name = "set_active_subject" -> {"subject_id"}
      [] name = "store_knowledge" ->
            {"content", "subject_id", "source_url", "source_score", "topic_path",
             "confidence"}
      [] name = "vector_search" -> {"query", "subject_id"}
      [] OTHER -> {}

\* Keyword-only parameters with a default.
Defaulted(name) ==
    CASE name = "record_assessment" -> {"lesson_id"}
      [] name = "save_knowledge_node" ->
            {"description", "parent_id", "depth", "is_goal_critical", "prerequisites",
             "shared_with_subjects"}
      [] name = "save_learning_goal" -> {"target_depth"}
      [] name = "store_knowledge" -> {"contradictions"}
      [] name = "vector_search" -> {"top_k", "min_confidence"}
      [] OTHER -> {}

\* inspect.signature and get_type_hints of the tool functions: the parameters in
\* declaration order, each with the base of its annotation, the item type of a
\* list, whether the annotation is a union with None, and whether it has a
\* default.
Param(name, base, item, optional, default) ==
    [base |-> base, default |-> default, item |-> item, name |-> name,
     optional |-> optional]

Signature(name) ==
    <<Param("db", "Database", "-", FALSE, FALSE),
      Param("vector_store", "VectorStore", "-", FALSE, FALSE)>> \o
    CASE name \in {"get_knowledge_node", "get_user_progress"} ->
            <<Param("node_id", "int", "-", FALSE, FALSE)>>
      [] name \in {"get_knowledge_tree", "get_learning_goal", "set_active_subject"} ->
            <<Param("subject_id", "str", "-", FALSE, FALSE)>>
      [] name = "record_assessment" ->
            <<Param("node_id", "int", "-", FALSE, FALSE),
              Param("question_hash", "str", "-", FALSE, FALSE),
              Param("response", "str", "-", FALSE, FALSE),
              Param("correct", "bool", "-", FALSE, FALSE),
              Param("lesson_id", "int", "-", TRUE, TRUE)>>
      [] name = "save_knowledge_node" ->
            <<Param("subject_id", "str", "-", FALSE, FALSE),
              Param("title", "str", "-", FALSE, FALSE),
              Param("description", "str", "-", TRUE, TRUE),
              Param("parent_id", "int", "-", TRUE, TRUE),
              Param("depth", "int", "-", FALSE, TRUE),
              Param("is_goal_critical", "bool", "-", FALSE, TRUE),
              Param("prerequisites", "list", "int", TRUE, TRUE),
              Param("shared_with_subjects", "list", "str", TRUE, TRUE)>>
      [] name = "save_learning_goal" ->
            <<Param("subject_id", "str", "-", FALSE, FALSE),
              Param("purpose_statement", "str", "-", FALSE, FALSE),
              Param("target_depth", "str", "-", FALSE, TRUE)>>
      [] name = "store_knowledge" ->
            <<Param("content", "str", "-", FALSE, FALSE),
              Param("subject_id", "str", "-", FALSE, FALSE),
              Param("source_url", "str", "-", FALSE, FALSE),
              Param("source_score", "float", "-", FALSE, FALSE),
              Param("topic_path", "str", "-", FALSE, FALSE),
              Param("confidence", "float", "-", FALSE, FALSE),
              Param("contradictions", "list", "str", TRUE, TRUE)>>
      [] name = "vector_search" ->
            <<Param("query", "str", "-", FALSE, FALSE),
              Param("subject_id", "str", "-", FALSE, FALSE),
              Param("top_k", "int", "-", FALSE, TRUE),
              Param("min_confidence", "float", "-", FALSE, TRUE)>>
      [] OTHER -> <<>>

\* _python_type_to_json_schema on a scalar type; anything unknown is a string.
ScalarSchema(base) ==
    CASE base = "str" -> "string"
      [] base = "int" -> "integer"
      [] base = "float" -> "number"
      [] base = "bool" -> "boolean"
      [] OTHER -> "string"

\* _python_type_to_json_schema
_python_type_to_json_schema(base, item) ==
    IF base = "list"
    THEN PyDict([items |-> PyDict([type |-> PyStr(ScalarSchema(item))]),
                 type |-> PyStr("array")])
    ELSE PyDict([type |-> PyStr(ScalarSchema(base))])

\* The parameters _get_tool_definition lists: all but db and vector_store.
Listed(sig) == SelectSeq(sig, LAMBDA p : p.name \notin {"db", "vector_store"})

\* _get_tool_definition putting every parameter not typed optional in
\* 'required', whether or not it has a default.
_get_tool_definition_IgnoresDefault(name, sig) ==
    LET ps == Listed(sig)
        req == SelectSeq(ps, LAMBDA p : ~ p.optional)
    IN PyDict([description |-> PyStr("doc of " \o name),
               input_schema |->
                   PyDict([properties |->
                               PyDict([k \in {ps[i].name : i \in 1..Len(ps)} |->
                                   LET p == CHOOSE q \in {ps[i] : i \in 1..Len(ps)} : q.name = k
                                   IN _python_type_to_json_schema(p.base, p.item)]),
                           required |-> PyList([i \in 1..Len(req) |-> PyStr(req[i].name)]),
                           type |-> PyStr("object")]),
               name |-> PyStr(name)])

\* _get_tool_definition: a parameter is put in 'required' when its annotation
\* is not a union with None and it has no default.
_get_tool_definition(name, sig) ==
    LET ps == Listed(sig)
        req == SelectSeq(ps, LAMBDA p : ~ p.optional /\ ~ p.default)
    IN PyDict([description |-> PyStr("doc of " \o name),
               input_schema |->
                   PyDict([properties |->
                               PyDict([k \in {ps[i].name : i \in 1..Len(ps)} |->
                                   LET p == CHOOSE q \in {ps[i] : i \in 1..Len(ps)} : q.name = k
                                   IN _python_type_to_json_schema(p.base, p.item)]),
                           required |-> PyList([i \in 1..Len(req) |-> PyStr(req[i].name)]),
                           type |-> PyStr("object")]),
               name |-> PyStr(name)])

\* Parameters annotated str.
StrParams ==
    {"subject_id", "title", "description", "purpose_statement", "target_depth",
     "question_hash", "response", "content", "source_url", "topic_path", "query"}

\* Tools that build a pydantic model from their arguments; the others hand the
\* argument to the store, which rejects a value it cannot bind.
PydanticTools ==
    {"record_assessment", "save_knowledge_node", "save_learning_goal", "store_knowledge"}

\* A JSON object where the tool expects a string.
JsonObject == "<object>"

Arg(args, k, default) == IF k \in DOMAIN args THEN args[k] ELSE default

Returned(res, d, v) == [db |-> d, raised |-> None, res |-> res, vs |-> v]
\* res stands for str(e), the exception's message.
Raised(exc, name, d, v) ==
    [db |-> d, raised |-> exc, res |-> exc \o " in " \o name, vs |-> v]

\* LearningGoal.model_dump(mode='json'): created_date becomes an ISO string.
GoalDict(g) ==
    PyDict([created_date |-> PyStr("iso8601"), id |-> OptInt(g.id),
            purpose_statement |-> PyStr(g.purpose_statement),
            research_complete |-> PyBool(FALSE), status |-> PyStr("initializing"),
            subject_id |-> PyStr(g.subject_id), target_depth |-> PyStr(g.target_depth)])

\* KnowledgeNode.model_dump(mode='json')
NodeDict(n) ==
    PyDict([depth |-> PyInt(n.depth), description |-> PyNone, id |-> OptInt(n.id),
            is_goal_critical |-> PyBool(FALSE), parent_id |-> OptInt(n.parent_id),
            prerequisites |-> PyList(<<>>), shared_with_subjects |-> PyList(<<>>),
            subject_id |-> PyStr(n.subject_id), title |-> PyStr(n.title)])

\* KnowledgeChunk.model_dump(mode='json'): last_validated becomes an ISO string.
ChunkDict(c) ==
    PyDict([confidence |-> PyInt(c.confidence), content |-> PyStr(c.content),
            contradictions |-> PyList(<<>>), last_validated |-> PyStr("iso8601"),
            source_score |-> PyInt(c.source_score), source_url |-> PyStr(c.source_url),
            subject_id |-> PyStr(c.subject_id), topic_path |-> PyStr(c.topic_path)])

\* list_subjects: ORDER BY created_date DESC; rows are created in id order.
RECURSIVE SortGoalsDesc(_)
SortGoalsDesc(S) ==
    IF S = {} THEN <<>>
    ELSE LET first == CHOOSE g \in S : \A h \in S : g.id >= h.id
         IN <<first>> \o SortGoalsDesc(S \ {first})

\* tools/subjects.py
tool_get_active_subject(args, d, v) ==
    Returned(OptStr(get_setting(d, "active_subject")), d, v)

tool_set_active_subject(args, d, v) ==
    Returned(PyDict([active_subject |-> PyStr(args.subject_id), status |-> PyStr("success")]),
             set_setting(d, "active_subject", args.subject_id), v)

tool_list_subjects(args, d, v) ==
    LET goals == SortGoalsDesc(d.learning_goals)
    IN Returned(PyList([i \in 1..Len(goals) |-> GoalDict(goals[i])]), d, v)

\* tools/learning_goals.py
tool_get_learning_goal(args, d, v) ==
    Returned(IF HasGoal(d, args.subject_id) THEN GoalDict(GoalRow(d, args.subject_id))
             ELSE PyNone, d, v)

tool_save_learning_goal(args, d, v) ==
    LET goal == [purpose_statement |-> args.purpose_statement,
                 subject_id |-> args.subject_id,
                 target_depth |-> Arg(args, "target_depth", "practical")]
        saved == save_learning_goal(d, goal)
    IN Returned(GoalDict([id |-> saved.id, purpose_statement |-> goal.purpose_statement,
                          subject_id |-> goal.subject_id,
                          target_depth |-> goal.target_depth]),
                saved.db, v)

\* tools/knowledge_nodes.py
tool_get_knowledge_node(args, d, v) ==
    Returned(IF \E n \in d.knowledge_nodes : n.id = args.node_id
             THEN NodeDict(CHOOSE n \in d.knowledge_nodes : n.id = args.node_id)
             ELSE PyNone, d, v)

tool_get_knowledge_tree(args, d, v) ==
    LET nodes == get_knowledge_tree(d, args.subject_id)
    IN Returned(PyList([i \in 1..Len(nodes) |-> NodeDict(nodes[i])]), d, v)

\* The tool has no id parameter: the KnowledgeNode it builds has id None.
tool_save_knowledge_node(args, d, v) ==
    LET node == [depth |-> Arg(args, "depth", 0), id |-> 0,
                 parent_id |-> Arg(args, "parent_id", 0), subject_id |-> args.subject_id,
                 title |-> args.title]
        saved == save_knowledge_node(d, node)
    IN Returned(NodeDict([node EXCEPT !.id = saved.id]), saved.db, v)

\* tools/progress.py
tool_get_user_progress(args, d, v) == Returned(PyNone, d, v)

\* AssessmentResponse.model_dump(): python mode, the two datetimes stay datetimes.
tool_record_assessment(args, d, v) ==
    Returned(PyDict([correct |-> PyBool(args.correct), id |-> PyNone,
                     lesson_id |-> OptInt(Arg(args, "lesson_id", 0)),
                     next_review |-> PyDatetime, node_id |-> PyInt(args.node_id),
                     question_hash |-> PyStr(args.question_hash),
                     response |-> PyStr(args.response), timestamp |-> PyDatetime]),
             d, v)

\* store_knowledge refusing a fact whose topic path is not the title of a
\* knowledge node of the subject.
tool_store_knowledge_ChecksNode(args, d, v) ==
    LET chunk == [confidence |-> args.confidence, content |-> args.content,
                  source_score |-> args.source_score, source_url |-> args.source_url,
                  subject_id |-> args.subject_id, topic_path |-> args.topic_path]
    IN IF \E n \in d.knowledge_nodes :
              n.subject_id = args.subject_id /\ n.title = args.topic_path
       THEN Returned(PyDict([status |-> PyStr("stored"),
                             subject_id |-> PyStr(args.subject_id),
                             topic_path |-> PyStr(args.topic_path)]),
                     d, store_knowledge(v, chunk))
       ELSE Raised("ValueError", "store_knowledge", d, v)

\* tools/knowledge.py
tool_store_knowledge(args, d, v) ==
    LET chunk == [confidence |-> args.confidence, content |-> args.content,
                  source_score |-> args.source_score, source_url |-> args.source_url,
                  subject_id |-> args.subject_id, topic_path |-> args.topic_path]
    IN Returned(PyDict([status |-> PyStr("stored"), subject_id |-> PyStr(args.subject_id),
                        topic_path |-> PyStr(args.topic_path)]),
                d, store_knowledge(v, chunk))

tool_vector_search(args, d, v, ranking) ==
    LET results == NthAnswer(search(v, args.query, args.subject_id,
                                    Arg(args, "top_k", 5),
                                    Arg(args, "min_confidence", 0)), ranking)
    IN Returned(PyList([i \in 1..Len(results) |-> ChunkDict(results[i].chunk)]), d, v)

\* func(self.db, self.vector_store, **args): the call binds the keyword arguments
\* (TypeError on a missing or an unexpected one), the body validates them.
CallTool(name, args, d, v, ranking) ==
    IF ~ (Required(name) \subseteq DOMAIN args)
       \/ ~ (DOMAIN args \subseteq Required(name) \cup Defaulted(name))
    THEN Raised("TypeError", name, d, v)
    ELSE IF \E k \in DOMAIN args \cap StrParams : args[k] = JsonObject
    THEN Raised(IF name \in PydanticTools THEN "ValidationError" ELSE "StoreError",
                name, d, v)
    ELSE CASE name = "get_active_subject" -> tool_get_active_subject(args, d, v)
           [] name = "get_knowledge_node" -> tool_get_knowledge_node(args, d, v)
           [] name = "get_knowledge_tree" -> tool_get_knowledge_tree(args, d, v)
           [] name = "get_learning_goal" -> tool_get_learning_goal(args, d, v)
           [] name = "get_user_progress" -> tool_get_user_progress(args, d, v)
           [] name = "list_subjects" -> tool_list_subjects(args, d, v)
           [] name = "record_assessment" -> tool_record_assessment(args, d, v)
           [] name = "save_knowledge_node" -> tool_save_knowledge_node(args, d, v)
           [] name = "save_learning_goal" -> tool_save_learning_goal(args, d, v)
           [] name = "set_active_subject" -> tool_set_active_subject(args, d, v)
           [] name = "store_knowledge" -> tool_store_knowledge(args, d, v)
           [] name = "vector_search" -> tool_vector_search(args, d, v, ranking)

----------------------------------------------------------------------------
\* orchestrator.py: the tool executor.

ErrorDict(msg) == PyDict([error |-> PyStr(msg)])

\* The executor without its try/except: the tool's exception reaches the caller.
execute_NoCatch(name, args, d, v, ranking) ==
    IF name \notin TOOL_REGISTRY
    THEN Returned(ErrorDict("Unknown tool: " \o name), d, v)
    ELSE CallTool(name, args, d, v, ranking)

\* except Exception as e: return {"error": str(e)}, around the outcome of the call.
Caught(out) ==
    IF out.raised # None THEN Returned(ErrorDict(out.res), out.db, out.vs) ELSE out

\* Orchestrator._create_tool_executor.execute
execute(name, args, d, v, ranking) ==
    IF name \notin TOOL_REGISTRY
    THEN Returned(ErrorDict("Unknown tool: " \o name), d, v)
    ELSE Caught(CallTool(name, args, d, v, ranking))

----------------------------------------------------------------------------
\* agents/base.py: the tool-calling loop.

\* json.dumps: TypeError on a value it has no encoding for (a datetime).
RECURSIVE Serializable(_)
Serializable(x) ==
    CASE x.py = "datetime" -> FALSE
      [] x.py = "dict" -> \A k \in DOMAIN x.v : Serializable(x.v[k])
      [] x.py = "list" -> \A i \in 1..Len(x.v) : Serializable(x.v[i])
      [] OTHER -> TRUE

RECURSIVE Encode(_)
Encode(x) ==
    CASE x.py = "None" -> [json |-> "null"]
      [] x.py = "str" -> [json |-> "string", v |-> x.v]
      [] x.py = "int" -> [json |-> "number", v |-> x.v]
      [] x.py = "bool" -> [json |-> IF x.v THEN "true" ELSE "false"]
      [] x.py = "dict" -> [json |-> "object", v |-> [k \in DOMAIN x.v |-> Encode(x.v[k])]]
      [] x.py = "list" -> [json |-> "array", v |-> [i \in 1..Len(x.v) |-> Encode(x.v[i])]]

json_dumps(x) ==
    IF Serializable(x) THEN [raised |-> None, text |-> Encode(x)]
    ELSE [raised |-> "TypeError", text |-> [json |-> "null"]]

IsToolUse(b) == b.type = "tool_use"

\* [b for b in response.content if getattr(b, "type", None) == "tool_use"]
ToolUses(response) == SelectSeq(response, IsToolUse)

IsTextBlock(b) == "text" \in DOMAIN b

\* BaseAgent._extract_text: "".join of the texts of the blocks that have one.
RECURSIVE _extract_text(_)
_extract_text(response) ==
    IF response = <<>> THEN ""
    ELSE (IF IsTextBlock(Head(response)) THEN Head(response).text ELSE "")
         \o _extract_text(Tail(response))

UserMessage(content) == [content |-> content, role |-> "user"]
AssistantMessage(content) == [content |-> content, role |-> "assistant"]

\* One call of the executor from the loop body (lines 105-108).
Dispatch(tool_executor, name, input, d, v, ranking) ==
    IF tool_executor # None THEN execute(name, input, d, v, ranking)
    ELSE Returned(ErrorDict("No tool executor configured"), d, v)

\* tool_results.append({...}) (lines 110-114) for the block tu, given the outcome
\* `out` of the executor call and `dumped`, the outcome of json.dumps on its result.
AppendResult(tu, acc, out, dumped) ==
    LET entry == [before |-> [db |-> acc.db, vs |-> acc.vs], id |-> tu.id,
                  input |-> tu.input, name |-> tu.name, raised |-> out.raised,
                  result |-> out.res]
        block == [content |-> dumped.text, tool_use_id |-> tu.id, type |-> "tool_result"]
    IN [db |-> out.db, log |-> Append(acc.log, entry),
        raised |-> IF out.raised # None THEN out.raised ELSE dumped.raised,
        tool_results |-> IF out.raised = None /\ dumped.raised = None
                         THEN Append(acc.tool_results, block)
                         ELSE acc.tool_results,
        vs |-> out.vs]

\* The result of the executor call is serialized and collected.
DumpResult(tu, acc, out) == AppendResult(tu, acc, out, json_dumps(out.res))

\* One pass of the body of the for loop (lines 104-114) for the block tu.  acc
\* carries the stores, the tool_result blocks collected so far, the executor calls
\* made and the exception that left the loop, if any.
ExecuteOne(tool_executor, tu, acc, ranking) ==
    DumpResult(tu, acc,
               Dispatch(tool_executor, tu.name, tu.input, acc.db, acc.vs, ranking))

\* The for loop walking tool_uses from its last block to its first.
ExecuteTools_Reversed(tool_executor, tool_uses, i, acc, ranking) ==
    ExecuteOne(tool_executor, tool_uses[Len(tool_uses) + 1 - i], acc, ranking)

\* The i-th pass of the for loop over tool_uses (lines 103-114).  Each tool
\* commits to the stores on its own, so a pass is one step and the stores
\* between two passes are visible to the other thread.
ExecuteTools(tool_executor, tool_uses, i, acc, ranking) ==
    ExecuteOne(tool_executor, tool_uses[i], acc, ranking)

\* tool_results as the for loop holds it after the calls of `log`, none of which
\* has raised.
ToolResultsOf(log) ==
    [m \in 1..Len(log) |->
        [content |-> json_dumps(log[m].result).text, tool_use_id |-> log[m].id,
         type |-> "tool_result"]]

\* Lines 93-97: the response requests no tool; its text is recorded and returned.
ReturnText(msgs, response, d, v) ==
    LET content == _extract_text(response)
    IN [db |-> d, log |-> <<>>,
        messages |-> Append(msgs, AssistantMessage(PyStr(content))), next |-> "return",
        raised |-> None, result |-> content, vs |-> v]

\* Line 117: the collected results are appended as one user turn, unless an
\* exception left the for loop; acc is what the for loop ended with.
AppendToolResults(with_call, acc) ==
    IF acc.raised # None
    THEN [db |-> acc.db, log |-> acc.log, messages |-> with_call, next |-> "raise",
          raised |-> acc.raised, result |-> "", vs |-> acc.vs]
    ELSE [db |-> acc.db, log |-> acc.log,
          messages |-> Append(with_call, UserMessage(PyList(acc.tool_results))),
          next |-> "loop", raised |-> None, result |-> "", vs |-> acc.vs]

\* After a pass of the for loop: the loop goes on to the next block ("tools"),
\* or it is over and line 117 appends the results, or an exception left it.
AfterTool(with_call, tool_uses, acc) ==
    IF acc.raised = None /\ Len(acc.log) < Len(tool_uses)
    THEN [db |-> acc.db, log |-> acc.log, messages |-> with_call, next |-> "tools",
          raised |-> None, result |-> "", vs |-> acc.vs]
    ELSE AppendToolResults(with_call, acc)

\* The next pass of the for loop, `log` holding the calls made so far and
\* with_call the history that ends with the response.  `ranking` numbers the
\* answer of the collection if the tool queries it.
ContinueTools(tool_executor, with_call, tool_uses, log, d, v, ranking) ==
    AfterTool(with_call, tool_uses,
              ExecuteTools(tool_executor, tool_uses, Len(log) + 1,
                    [db |-> d, log |-> log, raised |-> None,
                     tool_results |-> ToolResultsOf(log), vs |-> v], ranking))

\* Lines 99-114: the response is recorded and its first tool is run.
RunTools(tool_executor, msgs, response, d, v, ranking) ==
    ContinueTools(tool_executor, Append(msgs, AssistantMessage(PyList(response))),
                  ToolUses(response), <<>>, d, v, ranking)

\* The loop leaving as soon as the response carries text, tool requests or not.
LoopBody_ReturnsOnText(tool_executor, msgs, response, d, v, ranking) ==
    IF _extract_text(response) # ""
    THEN ReturnText(msgs, response, d, v)
    ELSE RunTools(tool_executor, msgs, response, d, v, ranking)

\* The while loop of BaseAgent.run after messages.create returned `response`
\* (lines 90-114), up to the end of its first tool call.  Returns the new
\* history, the stores, and whether run returned ("return"), raised ("raise"),
\* goes on with the next tool ("tools") or with the next model call ("loop").
LoopBody(tool_executor, msgs, response, d, v, ranking) ==
    IF ToolUses(response) = <<>>
    THEN ReturnText(msgs, response, d, v)
    ELSE RunTools(tool_executor, msgs, response, d, v, ranking)

----------------------------------------------------------------------------
\* orchestrator.py: subject management.

\* Orchestrator.get_active_subject: the cached pointer, else the persisted
\* setting, which is then cached.
Orchestrator_get_active_subject(d, active) ==
    IF active # None THEN [active |-> active, result |-> active]
    ELSE LET persisted == get_setting(d, "active_subject")
         IN [active |-> persisted, result |-> persisted]

\* set_active_subject writing the pointer and the setting before it looks for
\* the learning goal.
Orchestrator_set_active_subject_SetsFirst(d, active, subject_id) ==
    [active |-> subject_id, db |-> set_setting(d, "active_subject", subject_id),
     raised |-> IF HasGoal(d, subject_id) THEN None ELSE "ValueError"]

\* Orchestrator.set_active_subject
Orchestrator_set_active_subject(d, active, subject_id) ==
    IF ~ HasGoal(d, subject_id)
    THEN [active |-> active, db |-> d, raised |-> "ValueError"]
    ELSE [active |-> subject_id, db |-> set_setting(d, "active_subject", subject_id),
          raised |-> None]

\* delete_subject running the relational cascade before the other two steps.
Orchestrator_delete_subject_RelationalFirst(d, v, active, subject_id, vs_fails, fail_at) ==
    LET r == Database_delete_subject(d, subject_id, fail_at)
    IN IF r.raised
       THEN [active |-> active, db |-> r.db, raised |-> "OperationalError",
             result |-> FALSE, vs |-> v]
       ELSE IF vs_fails
       THEN [active |-> active, db |-> r.db, raised |-> "VectorStoreError",
             result |-> FALSE, vs |-> v]
       ELSE [active |-> IF active = subject_id THEN None ELSE active, db |-> r.db,
             raised |-> None, result |-> r.result,
             vs |-> VectorStore_delete_subject(v, subject_id)]

\* Orchestrator.delete_subject.  vs_fails: the vector store's delete raises;
\* fail_at: as for Database_delete_subject.
Orchestrator_delete_subject(d, v, active, subject_id, vs_fails, fail_at) ==
    IF vs_fails
    THEN [active |-> active, db |-> d, raised |-> "VectorStoreError", result |-> FALSE,
          vs |-> v]
    ELSE LET v1 == VectorStore_delete_subject(v, subject_id)
             a1 == IF active = subject_id THEN None ELSE active
             r == Database_delete_subject(d, subject_id, fail_at)
         IN [active |-> a1, db |-> r.db,
             raised |-> IF r.raised THEN "OperationalError" ELSE None, result |-> r.result,
             vs |-> v1]

\* subject_id.replace("-", " ").title() on the subject ids of the model.
SlugTitle(subject_id) ==
    CASE subject_id = "s1" -> "S1"
      [] subject_id = "s2" -> "S2"
      [] OTHER -> subject_id

\* ResearchAgent.research_topic: the prompt names the subject, the topic and the
\* context.
ResearchPrompt(topic_path, subject_id, context) ==
    PyStr("Research " \o topic_path \o " for " \o subject_id \o ": " \o context)

\* chr(10).join(f"- {topic}" for topic in topics)
RECURSIVE JoinTopics(_)
JoinTopics(topics) ==
    IF topics = <<>> THEN ""
    ELSE "- " \o Head(topics)
         \o (IF Len(topics) = 1 THEN "" ELSE "/" \o JoinTopics(Tail(topics)))

\* LessonAgent.generate_lesson: the prompt names the subject, the topics and the
\* assessment summary ("/" stands for the line break between two topics).
LessonPrompt(subject_id, topics, assessment_summary) ==
    PyStr("Lesson for " \o subject_id \o ": " \o JoinTopics(topics)
          \o "; " \o assessment_summary)

\* What an operation left its caller with: the value returned (a Python value)
\* or the exception raised.
Outcome(op, arg, result, raised) ==
    [arg |-> arg, op |-> op, raised |-> raised, result |-> result]

----------------------------------------------------------------------------
\* The state after construction: an initialized database file, an empty
\* collection, Orchestrator.__init__.

\* No method of the repository writes the lessons and responses tables; their rows
\* are those of a database file that already holds some.
SeededDb ==
    [EmptyDb EXCEPT
        !.lessons = {[id |-> 1, subject_id |-> "s1"], [id |-> 2, subject_id |-> "s2"]},
        !.responses = {[id |-> 1, lesson_id |-> 1, node_id |-> 1],
                       [id |-> 2, lesson_id |-> 2, node_id |-> 1],
                       [id |-> 3, lesson_id |-> 0, node_id |-> 1]}]

\* The main thread of cli.py research_start outside the section that runs a
\* research thread: no display built, nothing rendered.
MainAtCommand ==
    [at |-> "command", nodes |-> <<>>, shown |-> PyNone, step |-> 0,
     subject |-> None, topic |-> None]

\* The agents whose histories the model follows, and the histories of an
\* orchestrator that has built no agent yet: every one is empty (base.py:30),
\* and messages is the research agent's.
HistoryAgents == {"assessment", "lesson", "research"}
HeldAtStart == [agent |-> "research", messages |-> [a \in HistoryAgents |-> <<>>]]

Init ==
    /\ db = EmptyDb
    /\ vs = {}
    /\ state = "idle"
    /\ active_subject_id = None
    /\ agents = {}
    /\ messages = <<>>
    /\ held = HeldAtStart
    /\ pc = "idle"
    /\ caller = None
    /\ run_base = 0
    /\ model_calls = 0
    /\ responses = <<>>
    /\ exec_log = <<>>
    /\ ret = Outcome("__init__", None, PyNone, None)
    /\ replaced = {}
    /\ main = MainAtCommand

agent_vars == <<agents, messages, held, pc, caller, run_base, model_calls,
                responses, exec_log>>

----------------------------------------------------------------------------
\* Orchestrator operations.  The caller is one thread: an operation starts only
\* when no agent turn is running.

\* initialize_subject saving the goal without making the subject active.
InitializeSubject_NoActivate(subject_id, purpose_statement) ==
    /\ pc = "idle"
    /\ db.goal_seq < MaxGoalSeq
    /\ db' = save_learning_goal(db, [purpose_statement |-> purpose_statement,
                                     subject_id |-> subject_id,
                                     target_depth |-> "practical"]).db
    /\ state' = "idle"
    /\ ret' = Outcome("initialize_subject", subject_id, PyStr(subject_id), None)
    /\ replaced' = {}
    /\ UNCHANGED <<vs, active_subject_id, agent_vars, main>>

\* Orchestrator.initialize_subject
InitializeSubject(subject_id, purpose_statement) ==
    /\ pc = "idle"
    /\ db.goal_seq < MaxGoalSeq
    /\ LET saved == save_learning_goal(db,
                        [purpose_statement |-> purpose_statement,
                         subject_id |-> subject_id, target_depth |-> "practical"])
           set == Orchestrator_set_active_subject(saved.db, active_subject_id, subject_id)
       IN /\ db' = set.db
          /\ active_subject_id' = set.active
          /\ state' = IF set.raised = None THEN "idle" ELSE "initializing"
          /\ ret' = Outcome("initialize_subject", subject_id,
                            IF set.raised = None THEN PyStr(subject_id) ELSE PyNone,
                            set.raised)
    /\ replaced' = {}
    /\ UNCHANGED <<vs, agent_vars, main>>

\* Orchestrator.initialize_subject with a store operation that raises, in the
\* order of the code: the goal's save (fail_at = 1, rolled back: nothing is
\* written), the goal's lookup at the head of set_active_subject (fail_at = 2:
\* the goal is saved, the pointer and the setting are as before), or the
\* setting's write at its end (fail_at = 3: the goal is saved and the pointer
\* assigned, the setting is as before).
InitializeSubjectFails(subject_id, purpose_statement, fail_at) ==
    /\ pc = "idle"
    /\ db.goal_seq < MaxGoalSeq
    /\ LET saved == save_learning_goal(db,
                        [purpose_statement |-> purpose_statement,
                         subject_id |-> subject_id, target_depth |-> "practical"])
       IN /\ db' = IF fail_at = 1 THEN db ELSE saved.db
          /\ active_subject_id' = IF fail_at = 3 THEN subject_id ELSE active_subject_id
    /\ state' = "initializing"
    /\ ret' = Outcome("initialize_subject", subject_id, PyNone, "OperationalError")
    /\ replaced' = {}
    /\ UNCHANGED <<vs, agent_vars, main>>

\* A constructor that restores the workflow state of the instance before it.
NewOrchestrator_KeepsState ==
    /\ pc = "idle"
    /\ active_subject_id' = None
    /\ agents' = {}
    /\ messages' = <<>>
    /\ held' = HeldAtStart
    /\ caller' = None
    /\ run_base' = 0
    /\ model_calls' = 0
    /\ responses' = <<>>
    /\ exec_log' = <<>>
    /\ ret' = Outcome("__init__", None, PyNone, None)
    /\ replaced' = {}
    /\ UNCHANGED <<db, vs, state, pc, main>>

\* Orchestrator.__init__ over the stores an earlier instance wrote: the state
\* and the pointer are set afresh, no agent is constructed yet.
NewOrchestrator ==
    /\ pc = "idle"
    /\ state' = "idle"
    /\ active_subject_id' = None
    /\ agents' = {}
    /\ messages' = <<>>
    /\ held' = HeldAtStart
    /\ caller' = None
    /\ run_base' = 0
    /\ model_calls' = 0
    /\ responses' = <<>>
    /\ exec_log' = <<>>
    /\ ret' = Outcome("__init__", None, PyNone, None)
    /\ replaced' = {}
    /\ UNCHANGED <<db, vs, pc, main>>

\* The agent properties of the orchestrator, read with the agents in cached
\* already held: a cached agent is returned as it is; ResearchAgent and
\* LessonAgent are constructed with the tool list and the executor and cached;
\* CurriculumAgent and AssessmentAgent take neither argument, the construction
\* raises TypeError and nothing is cached.
AgentProperty(name, cached) ==
    IF name \in cached THEN [agents |-> cached, raised |-> None]
    ELSE IF name \in {"research", "lesson"}
         THEN [agents |-> cached \cup {name}, raised |-> None]
         ELSE [agents |-> cached, raised |-> "TypeError"]

\* A read of orchestrator.<name>_agent from outside the orchestrator.
ReadAgent(name) ==
    /\ pc = "idle"
    /\ LET got == AgentProperty(name, agents)
       IN /\ agents' = got.agents
          /\ ret' = Outcome(name \o "_agent", None,
                            IF got.raised = None THEN PyStr(name) ELSE PyNone,
                            got.raised)
    /\ replaced' = {}
    /\ UNCHANGED <<db, vs, state, active_subject_id, messages, held, pc, caller,
                   run_base, model_calls, responses, exec_log, main>>

\* orchestrator._assessment_agent = agent: an assessment agent built outside the
\* orchestrator is put where the property caches its own.  No code of the
\* repository does it; it is the one way an orchestrator comes to hold an
\* assessment agent, the property's own construction raising every time.  The
\* agent is new: it has the defaults of BaseAgent, an empty history, no tools
\* and no executor.
SupplyAssessmentAgent ==
    /\ pc = "idle"
    /\ "assessment" \notin agents
    /\ agents' = agents \cup {"assessment"}
    /\ ret' = Outcome("_assessment_agent", None, PyNone, None)
    /\ replaced' = {}
    /\ UNCHANGED <<db, vs, state, active_subject_id, messages, held, pc, caller,
                   run_base, model_calls, responses, exec_log, main>>

SetActiveSubject(subject_id) ==
    /\ pc = "idle"
    /\ LET set == Orchestrator_set_active_subject(db, active_subject_id, subject_id)
       IN /\ db' = set.db
          /\ active_subject_id' = set.active
          /\ ret' = Outcome("set_active_subject", subject_id, PyNone, set.raised)
    /\ replaced' = {}
    /\ UNCHANGED <<vs, state, agent_vars, main>>

GetActiveSubject ==
    /\ pc = "idle"
    /\ LET got == Orchestrator_get_active_subject(db, active_subject_id)
       IN /\ active_subject_id' = got.active
          /\ ret' = Outcome("get_active_subject", None, OptStr(got.result), None)
    /\ replaced' = {}
    /\ UNCHANGED <<db, vs, state, agent_vars, main>>

DeleteSubject(subject_id, vs_fails, fail_at) ==
    /\ pc = "idle"
    /\ LET del == Orchestrator_delete_subject(db, vs, active_subject_id, subject_id,
                                              vs_fails, fail_at)
       IN /\ db' = del.db
          /\ vs' = del.vs
          /\ active_subject_id' = del.active
          /\ ret' = Outcome("delete_subject", subject_id,
                            IF del.raised = None THEN PyBool(del.result) ELSE PyNone,
                            del.raised)
    /\ replaced' = {}
    /\ UNCHANGED <<state, agent_vars, main>>

\* get_all_tool_definitions, one entry of the list: the definition generated
\* for a registered tool.
GetToolDefinition(name) ==
    /\ pc = "idle"
    /\ ret' = Outcome("_get_tool_definition", name,
                      _get_tool_definition(name, Signature(name)), None)
    /\ replaced' = {}
    /\ UNCHANGED <<db, vs, state, active_subject_id, agent_vars, main>>

\* The methods of Database called on the store itself.
DbSaveLearningGoal(subject_id, purpose_statement) ==
    /\ db.goal_seq < MaxGoalSeq
    /\ LET saved == save_learning_goal(db,
                        [purpose_statement |-> purpose_statement,
                         subject_id |-> subject_id, target_depth |-> "practical"])
       IN /\ db' = saved.db
          /\ ret' = Outcome("Database.save_learning_goal", subject_id, PyInt(saved.id), None)
    /\ replaced' = {}
    /\ UNCHANGED <<vs, state, active_subject_id, agent_vars, main>>

DbSaveKnowledgeNode(subject_id) ==
    /\ db.node_seq < MaxRowId
    /\ LET saved == save_knowledge_node(db,
                        [depth |-> 0, id |-> 0, parent_id |-> 0, subject_id |-> subject_id,
                         title |-> "T1"])
       IN /\ db' = saved.db
          /\ ret' = Outcome("Database.save_knowledge_node", subject_id, PyInt(saved.id), None)
    /\ replaced' = {}
    /\ UNCHANGED <<vs, state, active_subject_id, agent_vars, main>>

DbSetSetting(value) ==
    /\ db' = set_setting(db, "active_subject", value)
    /\ ret' = Outcome("Database.set_setting", value, PyNone, None)
    /\ replaced' = {}
    /\ UNCHANGED <<vs, state, active_subject_id, agent_vars, main>>

DbDeleteSubject(subject_id, fail_at) ==
    /\ pc = "idle"
    /\ LET del == Database_delete_subject(db, subject_id, fail_at)
       IN /\ db' = del.db
          /\ ret' = Outcome("Database.delete_subject", subject_id,
                            IF del.raised THEN PyNone ELSE PyBool(del.result),
                            IF del.raised THEN "OperationalError" ELSE None)
    /\ replaced' = {}
    /\ UNCHANGED <<vs, state, active_subject_id, agent_vars, main>>

\* Database.save_knowledge_node for a new node under parent_id (0: a root).  The
\* caller takes the parent from the subject's tree and the depth from the parent.
DbSaveChildNode(subject_id, title, parent_id) ==
    /\ db.node_seq < MaxRowId
    /\ parent_id # 0 =>
            \E n \in db.knowledge_nodes : n.id = parent_id /\ n.subject_id = subject_id
    /\ LET depth == IF parent_id = 0 THEN 0
                    ELSE (CHOOSE n \in db.knowledge_nodes : n.id = parent_id).depth + 1
           saved == save_knowledge_node(db,
                        [depth |-> depth, id |-> 0, parent_id |-> parent_id,
                         subject_id |-> subject_id, title |-> title])
       IN /\ db' = saved.db
          /\ ret' = Outcome("Database.save_knowledge_node", subject_id, PyInt(saved.id), None)
    /\ replaced' = {}
    /\ UNCHANGED <<vs, state, active_subject_id, agent_vars, main>>

\* Database.save_knowledge_node for a node read from the store and changed: the
\* row with the node's id gets the new subject and depth.
DbUpdateKnowledgeNode(id, subject_id, depth) ==
    /\ \E n \in db.knowledge_nodes : n.id = id
    /\ LET old == CHOOSE n \in db.knowledge_nodes : n.id = id
           saved == save_knowledge_node(db,
                        [old EXCEPT !.depth = depth, !.subject_id = subject_id])
       IN /\ db' = saved.db
          /\ ret' = Outcome("Database.save_knowledge_node", subject_id, PyInt(saved.id), None)
    /\ replaced' = {}
    /\ UNCHANGED <<vs, state, active_subject_id, agent_vars, main>>

DbGetKnowledgeTree(subject_id) ==
    /\ ret' = Outcome("Database.get_knowledge_tree", subject_id,
                      PyList(get_knowledge_tree(db, subject_id)), None)
    /\ replaced' = {}
    /\ UNCHANGED <<db, vs, state, active_subject_id, agent_vars, main>>

\* The methods of VectorStore called on the collection itself.  replaced
\* records what the upsert of a direct store_knowledge call overwrote: the entry
\* it found under the chunk's id, nothing for a chunk stored under a new id.
\* Every other step leaves it empty.
VsStoreKnowledge(chunk) ==
    /\ Cardinality(store_knowledge(vs, chunk)) <= MaxChunks
    /\ vs' = store_knowledge(vs, chunk)
    /\ replaced' = {c \in vs : c.id = _generate_id(chunk)}
    /\ ret' = Outcome("VectorStore.store_knowledge", _generate_id(chunk), PyNone, None)
    /\ UNCHANGED <<db, state, active_subject_id, agent_vars, main>>

VsSearch(query, subject_id, top_k, min_confidence) ==
    /\ \E results \in search(vs, query, subject_id, top_k, min_confidence) :
          ret' = Outcome("VectorStore.search", subject_id, PyList(results), None)
    /\ replaced' = {}
    /\ UNCHANGED <<db, vs, state, active_subject_id, agent_vars, main>>

VsDeleteSubject(subject_id) ==
    /\ vs' = VectorStore_delete_subject(vs, subject_id)
    /\ replaced' = {}
    /\ ret' = Outcome("VectorStore.delete_subject", subject_id, PyNone, None)
    /\ UNCHANGED <<db, state, active_subject_id, agent_vars, main>>

\* A call of BaseAgent.run is in progress: it waits for messages.create or is
\* inside the for loop over the tool_use blocks of the last response.
Running == pc \in {"awaiting_model", "running_tools"}

\* BaseAgent.messages of the agent: each agent has a list of its own.
HistoryOf(agent) == IF held.agent = agent THEN messages ELSE held.messages[agent]

\* held once messages follows the agent: the history messages followed until
\* now is put by, under the name of its agent.
HeldFor(agent) ==
    IF held.agent = agent THEN held
    ELSE [agent |-> agent,
          messages |-> [held.messages EXCEPT ![held.agent] = messages,
                                              ![agent] = <<>>]]

\* BaseAgent.run called on the agent whose list is `history`: the user message
\* is appended, the model call is next.
StartRun(agent, history, op, prompt) ==
    /\ messages' = Append(history, UserMessage(prompt))
    /\ held' = HeldFor(agent)
    /\ pc' = "awaiting_model"
    /\ caller' = op
    /\ run_base' = Len(history)
    /\ model_calls' = 0
    /\ responses' = <<>>
    /\ exec_log' = <<>>

\* Entering BaseAgent.run on the agent with the history it has.
EnterRun(agent, op, prompt) == StartRun(agent, HistoryOf(agent), op, prompt)

NoActive == "No active subject set"
NotFound(subject_id) == "Subject '" \o subject_id \o "' not found"

\* sum(fact_counts.values())
RECURSIVE SumValues(_)
SumValues(f) ==
    IF DOMAIN f = {} THEN 0
    ELSE LET k == CHOOSE t \in DOMAIN f : TRUE
         IN f[k] + SumValues([t \in DOMAIN f \ {k} |-> f[t]])

\* A progress entry that reports the subject's total for every node.
NodeProgress_SubjectTotal(node, fact_counts) ==
    PyDict([depth |-> PyInt(node.depth), fact_count |-> PyInt(SumValues(fact_counts)),
            id |-> OptInt(node.id), title |-> PyStr(node.title)])

\* The entry of one node: fact_counts.get(node.title, 0).
NodeProgress(node, fact_counts) ==
    PyDict([depth |-> PyInt(node.depth),
            fact_count |-> PyInt(IF node.title \in DOMAIN fact_counts
                                 THEN fact_counts[node.title] ELSE 0),
            id |-> OptInt(node.id), title |-> PyStr(node.title)])

\* The join of the tree with the counts, and the total over all topic paths.
ProgressOf(subject_id, nodes, fact_counts) ==
    PyDict([nodes |-> PyList([i \in 1..Len(nodes) |-> NodeProgress(nodes[i], fact_counts)]),
            subject_id |-> PyStr(subject_id),
            total_facts |-> PyInt(SumValues(fact_counts))])

\* Orchestrator.get_research_progress; subject_id None stands for the call
\* without argument.  Returns [active, raised, result].
Orchestrator_get_research_progress(d, v, active, subject_id) ==
    IF subject_id # None
    THEN [active |-> active, raised |-> None,
          result |-> ProgressOf(subject_id, get_knowledge_tree(d, subject_id),
                                count_facts_by_topic(v, subject_id))]
    ELSE LET got == Orchestrator_get_active_subject(d, active)
         IN IF got.result = None
            THEN [active |-> got.active, raised |-> "ValueError",
                  result |-> PyStr(NoActive)]
            ELSE [active |-> got.active, raised |-> None,
                  result |-> ProgressOf(got.result, get_knowledge_tree(d, got.result),
                                        count_facts_by_topic(v, got.result))]

\* get_research_progress persisting the subject it reports on as the active one.
GetResearchProgress_PersistsSubject(subject_id) ==
    /\ pc = "idle"
    /\ \E got \in {Orchestrator_get_research_progress(db, vs, active_subject_id, subject_id)} :
          /\ active_subject_id' = got.active
          /\ db' = IF got.raised = None
                   THEN set_setting(db, "active_subject", got.result.v.subject_id.v)
                   ELSE db
          /\ ret' = Outcome("get_research_progress", subject_id, got.result, got.raised)
    /\ replaced' = {}
    /\ UNCHANGED <<vs, state, agent_vars, main>>

GetResearchProgress(subject_id) ==
    /\ pc = "idle"
    /\ \E got \in {Orchestrator_get_research_progress(db, vs, active_subject_id, subject_id)} :
          /\ active_subject_id' = got.active
          /\ ret' = Outcome("get_research_progress", subject_id, got.result, got.raised)
    /\ replaced' = {}
    /\ UNCHANGED <<db, vs, state, agent_vars, main>>

\* cli/progress.py: the Rich tree is modelled by the list of its additions, each
\* the id of the node added and the id of the node whose Tree it was added to.
RootTree == 0     \* the root Tree
NoTree == -1      \* None

Added(id, under) == [id |-> id, under |-> under]

\* The keys of node_trees.
TreeIds(added) == {added[k].id : k \in 1..Len(added)}

RECURSIVE ScanBack(_, _, _, _)
\* The for loop of _find_parent_tree from index i down to the first node.
ScanBack(all_nodes, i, target_depth, added) ==
    LET fallthrough == IF target_depth = 0 THEN RootTree ELSE NoTree
    IN IF i < 1 THEN fallthrough
       ELSE LET candidate == all_nodes[i].v
            IN IF candidate.depth.v = target_depth
               THEN (IF candidate.id.v \in TreeIds(added) THEN candidate.id.v
                     ELSE fallthrough)
               ELSE IF candidate.depth.v < target_depth THEN fallthrough
               ELSE ScanBack(all_nodes, i - 1, target_depth, added)

\* ResearchProgressDisplay._find_parent_tree
_find_parent_tree(node, all_nodes, added) ==
    LET target_depth == node.depth.v - 1
        node_idx == CHOOSE k \in 1..Len(all_nodes) : all_nodes[k].v.id = node.id
    IN IF node_idx <= 1
       THEN (IF target_depth < 0 THEN RootTree ELSE NoTree)
       ELSE ScanBack(all_nodes, node_idx - 1, target_depth, added)

RECURSIVE AddNodes(_, _, _)
\* The for loop of build_tree from the i-th node on.
AddNodes(nodes, i, added) ==
    IF i > Len(nodes) THEN added
    ELSE LET node == nodes[i].v
         IN IF node.depth.v > MAX_DISPLAY_DEPTH THEN AddNodes(nodes, i + 1, added)
            ELSE IF node.depth.v = 0
            THEN AddNodes(nodes, i + 1, Append(added, Added(node.id.v, RootTree)))
            ELSE LET parent_tree == _find_parent_tree(node, nodes, added)
                 IN IF parent_tree # NoTree
                    THEN AddNodes(nodes, i + 1, Append(added, Added(node.id.v, parent_tree)))
                    ELSE AddNodes(nodes, i + 1, added)

\* ResearchProgressDisplay.build_tree on the progress data of the active subject.
build_tree(progress) == AddNodes(progress.v.nodes.v, 1, <<>>)

\* build_tree called on the display of this orchestrator.
BuildTree ==
    /\ pc = "idle"
    /\ \E got \in {Orchestrator_get_research_progress(db, vs, active_subject_id, None)} :
          /\ active_subject_id' = got.active
          /\ ret' = IF got.raised # None
                    THEN Outcome("build_tree", got.active, PyNone, got.raised)
                    ELSE Outcome("build_tree", got.active,
                                 [py |-> "Tree", v |-> build_tree(got.result)], None)
    /\ replaced' = {}
    /\ UNCHANGED <<db, vs, state, agent_vars, main>>

\* Database.save_knowledge_node for a new node of the displayed tree under
\* parent_id (0: a root), with the depth taken from the parent.
DbSaveTreeNode(subject_id, title, parent_id) ==
    /\ db.node_seq < MaxTreeNodes
    /\ parent_id # 0 =>
            \E n \in db.knowledge_nodes : n.id = parent_id /\ n.subject_id = subject_id
    /\ LET depth == IF parent_id = 0 THEN 0
                    ELSE (CHOOSE n \in db.knowledge_nodes : n.id = parent_id).depth + 1
           saved == save_knowledge_node(db,
                        [depth |-> depth, id |-> 0, parent_id |-> parent_id,
                         subject_id |-> subject_id, title |-> title])
       IN /\ db' = saved.db
          /\ ret' = Outcome("Database.save_knowledge_node", subject_id, PyInt(saved.id), None)
    /\ replaced' = {}
    /\ UNCHANGED <<vs, state, active_subject_id, agent_vars, main>>

\* The curriculum_agent and assessment_agent properties pass tools= and
\* tool_executor= to constructors that take neither: the access raises TypeError.
StartCurriculumDesign ==
    /\ pc = "idle"
    /\ LET got == Orchestrator_get_active_subject(db, active_subject_id)
       IN /\ active_subject_id' = got.active
          /\ IF got.result = None
             THEN /\ ret' = Outcome("start_curriculum_design", None, PyStr(NoActive), "ValueError")
                  /\ state' = state
             ELSE IF ~ HasGoal(db, got.result)
             THEN /\ ret' = Outcome("start_curriculum_design", None, PyStr(NotFound(got.result)), "ValueError")
                  /\ state' = state
             ELSE /\ ret' = Outcome("start_curriculum_design", None, PyNone, "TypeError")
                  /\ state' = "initializing"
    /\ replaced' = {}
    /\ UNCHANGED <<db, vs, agent_vars, main>>

ContinueCurriculumDesign ==
    /\ pc = "idle"
    /\ ret' = Outcome("continue_curriculum_design", None, PyNone, "TypeError")
    /\ replaced' = {}
    /\ UNCHANGED <<db, vs, state, active_subject_id, agent_vars, main>>

\* start_research handing the topic to the research agent without moving the
\* workflow state.
StartResearch_KeepsState ==
    /\ pc = "idle"
    /\ LET got == Orchestrator_get_active_subject(db, active_subject_id)
           nodes == get_knowledge_tree(db, got.result)
           topic == IF nodes # <<>> THEN nodes[1].title ELSE SlugTitle(got.result)
       IN /\ active_subject_id' = got.active
          /\ IF got.result = None
             THEN /\ ret' = Outcome("start_research", None, PyStr(NoActive), "ValueError")
                  /\ UNCHANGED agent_vars
             ELSE IF ~ HasGoal(db, got.result)
             THEN /\ ret' = Outcome("start_research", None, PyStr(NotFound(got.result)), "ValueError")
                  /\ UNCHANGED agent_vars
             ELSE /\ Len(HistoryOf("research")) < MaxOrchHistory
                  /\ agents' = agents \cup {"research"}
                  /\ EnterRun("research", "start_research",
                              ResearchPrompt(topic, got.result,
                                             GoalRow(db, got.result).purpose_statement))
                  /\ ret' = ret
    /\ replaced' = {}
    /\ UNCHANGED <<db, vs, state, main>>

\* start_research moving to RESEARCHING before it looks for the learning goal.
StartResearch_StateFirst ==
    /\ pc = "idle"
    /\ LET got == Orchestrator_get_active_subject(db, active_subject_id)
           nodes == get_knowledge_tree(db, got.result)
           topic == IF nodes # <<>> THEN nodes[1].title ELSE SlugTitle(got.result)
       IN /\ active_subject_id' = got.active
          /\ IF got.result = None
             THEN /\ ret' = Outcome("start_research", None, PyStr(NoActive), "ValueError")
                  /\ UNCHANGED <<state, agent_vars>>
             ELSE IF ~ HasGoal(db, got.result)
             THEN /\ ret' = Outcome("start_research", None, PyStr(NotFound(got.result)), "ValueError")
                  /\ state' = "researching"
                  /\ UNCHANGED agent_vars
             ELSE /\ Len(HistoryOf("research")) < MaxOrchHistory
                  /\ state' = "researching"
                  /\ agents' = agents \cup {"research"}
                  /\ EnterRun("research", "start_research",
                              ResearchPrompt(topic, got.result,
                                             GoalRow(db, got.result).purpose_statement))
                  /\ ret' = ret
    /\ replaced' = {}
    /\ UNCHANGED <<db, vs, main>>

\* Orchestrator.start_research
StartResearch ==
    /\ pc = "idle"
    /\ LET got == Orchestrator_get_active_subject(db, active_subject_id)
           nodes == get_knowledge_tree(db, got.result)
           topic == IF nodes # <<>> THEN nodes[1].title ELSE SlugTitle(got.result)
       IN /\ active_subject_id' = got.active
          /\ IF got.result = None
             THEN /\ ret' = Outcome("start_research", None, PyStr(NoActive), "ValueError")
                  /\ UNCHANGED <<state, agent_vars>>
             ELSE IF ~ HasGoal(db, got.result)
             THEN /\ ret' = Outcome("start_research", None, PyStr(NotFound(got.result)), "ValueError")
                  /\ UNCHANGED <<state, agent_vars>>
             ELSE /\ Len(HistoryOf("research")) < MaxOrchHistory
                  /\ state' = "researching"
                  /\ agents' = agents \cup {"research"}
                  /\ EnterRun("research", "start_research",
                              ResearchPrompt(topic, got.result,
                                             GoalRow(db, got.result).purpose_statement))
                  /\ ret' = ret
    /\ replaced' = {}
    /\ UNCHANGED <<db, vs, main>>

\* continue_research moving the workflow to RESEARCHING as start_research does.
ContinueResearch_SetsState(user_input) ==
    /\ pc = "idle"
    /\ LET got == Orchestrator_get_active_subject(db, active_subject_id)
       IN /\ active_subject_id' = got.active
          /\ IF got.result = None
             THEN /\ ret' = Outcome("continue_research", None, PyStr(NoActive), "ValueError")
                  /\ UNCHANGED <<state, agent_vars>>
             ELSE /\ Len(HistoryOf("research")) < MaxOrchHistory
                  /\ state' = "researching"
                  /\ agents' = agents \cup {"research"}
                  /\ EnterRun("research", "continue_research",
                              ResearchPrompt(user_input, got.result, ""))
                  /\ ret' = ret
    /\ replaced' = {}
    /\ UNCHANGED <<db, vs, main>>

\* Orchestrator.continue_research
ContinueResearch(user_input) ==
    /\ pc = "idle"
    /\ LET got == Orchestrator_get_active_subject(db, active_subject_id)
       IN /\ active_subject_id' = got.active
          /\ IF got.result = None
             THEN /\ ret' = Outcome("continue_research", None, PyStr(NoActive), "ValueError")
                  /\ UNCHANGED agent_vars
             ELSE /\ Len(HistoryOf("research")) < MaxOrchHistory
                  /\ agents' = agents \cup {"research"}
                  /\ EnterRun("research", "continue_research",
                              ResearchPrompt(user_input, got.result, ""))
                  /\ ret' = ret
    /\ replaced' = {}
    /\ UNCHANGED <<db, vs, state, main>>

\* cli.py research_start, up to the thread: the active subject is looked up on
\* the orchestrator get_orchestrator() has just built; without one the command
\* ends.  The tree read that follows only selects a notice to print.
CliResearchStart ==
    /\ main.at = "command"
    /\ pc = "idle"
    /\ ret.op = "__init__"
    /\ \E got \in {Orchestrator_get_active_subject(db, active_subject_id)} :
          /\ active_subject_id' = got.active
          /\ ret' = Outcome("research_start", None, OptStr(got.result), None)
    /\ replaced' = {}
    /\ UNCHANGED <<db, vs, state, agent_vars, main>>

\* ret stands for response_container: it holds the thread's outcome from the
\* thread's end to the print.  A started thread has not run its first statement
\* while ret still holds what the main thread left there.
ThreadPending ==
    /\ main.at \in {"initial", "check", "render"}
    /\ pc = "idle"
    /\ ret.op \in {"research_start", "print"}

\* research_thread.is_alive()
ThreadAlive == ThreadPending \/ Running

\* The display is built, response_container emptied and research_thread.start()
\* called for start_research; the main thread goes on to the first render.
CliStartThread ==
    /\ main.at = "command"
    /\ pc = "idle"
    /\ ret.op = "research_start"
    /\ ret.result # PyNone
    /\ main' = [MainAtCommand EXCEPT !.at = "initial"]
    /\ replaced' = {}
    /\ UNCHANGED <<db, vs, state, active_subject_id, agent_vars, ret>>

\* The interactive loop: a topic is entered, set_active_topic(user_input),
\* response_container emptied and the thread for continue_research started.
CliPrompt(user_input) ==
    /\ main.at = "prompt"
    /\ main' = [main EXCEPT !.at = "initial", !.topic = user_input]
    /\ replaced' = {}
    /\ UNCHANGED <<db, vs, state, active_subject_id, agent_vars, ret>>

\* The interactive loop left with "done": the command ends.
CliDone ==
    /\ main.at = "prompt"
    /\ main' = MainAtCommand
    /\ replaced' = {}
    /\ UNCHANGED <<db, vs, state, active_subject_id, agent_vars, ret>>

\* The started thread runs orchestrator.start_research().
CliRunStartResearch ==
    /\ ThreadPending
    /\ ret.op = "research_start"
    /\ StartResearch

\* The started thread runs orchestrator.continue_research(user_input).
CliRunContinueResearch ==
    /\ ThreadPending
    /\ ret.op = "print"
    /\ ContinueResearch(main.topic)

\* A render whose first read brings the pointer in line with the persisted
\* setting.
CliRenderSubject_SyncsPointer ==
    /\ main.at \in {"initial", "render", "final"}
    /\ main.step = 0
    /\ \E got \in {Orchestrator_get_active_subject(
                        db, get_setting(db, "active_subject"))} :
          /\ active_subject_id' = got.active
          /\ main' = IF got.result = None THEN MainAtCommand
                     ELSE [main EXCEPT !.step = 1, !.subject = got.result]
    /\ replaced' = {}
    /\ UNCHANGED <<db, vs, state, agent_vars, ret>>

\* progress_display.render() is build_tree(), which is get_research_progress()
\* without argument, and formatting.  It is called right after the thread's
\* start ("initial"), in every round of the loop on is_alive() ("render") and
\* once more after the loop ("final").  Its three reads are three steps, the
\* thread may run between them.  First get_active_subject(): without a subject
\* ValueError leaves the Live block and the command ends with the error printed.
CliRenderSubject ==
    /\ main.at \in {"initial", "render", "final"}
    /\ main.step = 0
    /\ \E got \in {Orchestrator_get_active_subject(db, active_subject_id)} :
          /\ active_subject_id' = got.active
          /\ main' = IF got.result = None THEN MainAtCommand
                     ELSE [main EXCEPT !.step = 1, !.subject = got.result]
    /\ replaced' = {}
    /\ UNCHANGED <<db, vs, state, agent_vars, ret>>

\* Second read of a render: db.get_knowledge_tree(subject_id).
CliRenderTree ==
    /\ main.step = 1
    /\ main' = [main EXCEPT !.step = 2, !.nodes = get_knowledge_tree(db, main.subject)]
    /\ replaced' = {}
    /\ UNCHANGED <<db, vs, state, active_subject_id, agent_vars, ret>>

\* Third read of a render: vector_store.count_facts_by_topic(subject_id), joined
\* with the tree read before it; the snapshot is shown.
CliRenderCounts ==
    /\ main.step = 2
    /\ main' = [main EXCEPT
                    !.at = IF main.at = "final" THEN "print" ELSE "check",
                    !.nodes = <<>>,
                    !.shown = ProgressOf(main.subject, main.nodes,
                                         count_facts_by_topic(vs, main.subject)),
                    !.step = 0,
                    !.subject = None]
    /\ replaced' = {}
    /\ UNCHANGED <<db, vs, state, active_subject_id, agent_vars, ret>>

\* while research_thread.is_alive(): another round with the thread alive, else
\* set_active_topic(None), update_status and the final render.
CliCheckAlive ==
    /\ main.at = "check"
    /\ main' = IF ThreadAlive THEN [main EXCEPT !.at = "render"]
               ELSE [main EXCEPT !.at = "final", !.topic = None]
    /\ replaced' = {}
    /\ UNCHANGED <<db, vs, state, active_subject_id, agent_vars, ret>>

\* After the Live block: response_container.get("result", "") is printed, ""
\* when the thread died of an exception; the interactive loop prompts next.
CliConsume ==
    /\ main.at = "print"
    /\ ret' = Outcome("print", None,
                      IF ret.op \in {"start_research", "continue_research"}
                         /\ ret.raised = None
                      THEN ret.result ELSE PyStr(""), None)
    /\ main' = [main EXCEPT !.at = "prompt"]
    /\ replaced' = {}
    /\ UNCHANGED <<db, vs, state, active_subject_id, agent_vars>>

\* nodes[:5] and the titles of these nodes (orchestrator.py:318, 356).
FirstTitles(nodes) ==
    [i \in 1..(IF Len(nodes) < 5 THEN Len(nodes) ELSE 5) |-> nodes[i].title]

\* AssessmentAgent.start_assessment: the prompt names the subject and, when
\* upcoming_topics is a non-empty list, the topics.
AssessmentPrompt(subject_id, upcoming_topics) ==
    PyStr("Assess " \o subject_id \o ": " \o JoinTopics(upcoming_topics))

\* AssessmentAgent.get_assessment_summary: a fixed prompt.
SummaryPrompt == PyStr("Assessment summary")

\* start_lesson moving to ASSESSING before it looks for the active subject.
StartLesson_StateFirst ==
    /\ pc = "idle"
    /\ LET got == Orchestrator_get_active_subject(db, active_subject_id)
           assessment == AgentProperty("assessment", agents)
           topics == FirstTitles(get_knowledge_tree(db, got.result))
       IN /\ active_subject_id' = got.active
          /\ state' = "assessing"
          /\ IF got.result = None
             THEN /\ ret' = Outcome("start_lesson", None, PyStr(NoActive), "ValueError")
                  /\ UNCHANGED agent_vars
             ELSE IF assessment.raised # None
             THEN /\ ret' = Outcome("start_lesson", None, PyNone, assessment.raised)
                  /\ UNCHANGED agent_vars
             ELSE /\ agents' = assessment.agents
                  /\ StartRun("assessment", <<>>, "start_lesson",
                              AssessmentPrompt(got.result, topics))
                  /\ ret' = ret
    /\ replaced' = {}
    /\ UNCHANGED <<db, vs, main>>

\* Orchestrator.start_lesson: the state is set once the active subject is
\* known, the topics are read and the assessment agent is taken from its
\* property.  The read raises TypeError unless the orchestrator holds an
\* assessment agent; start_assessment clears that agent's history and runs the
\* opening prompt.
StartLesson ==
    /\ pc = "idle"
    /\ LET got == Orchestrator_get_active_subject(db, active_subject_id)
           assessment == AgentProperty("assessment", agents)
           topics == FirstTitles(get_knowledge_tree(db, got.result))
       IN /\ active_subject_id' = got.active
          /\ IF got.result = None
             THEN /\ ret' = Outcome("start_lesson", None, PyStr(NoActive), "ValueError")
                  /\ UNCHANGED <<state, agent_vars>>
             ELSE IF assessment.raised # None
             THEN /\ ret' = Outcome("start_lesson", None, PyNone, assessment.raised)
                  /\ state' = "assessing"
                  /\ UNCHANGED agent_vars
             ELSE /\ state' = "assessing"
                  /\ agents' = assessment.agents
                  /\ StartRun("assessment", <<>>, "start_lesson",
                              AssessmentPrompt(got.result, topics))
                  /\ ret' = ret
    /\ replaced' = {}
    /\ UNCHANGED <<db, vs, main>>

\* Orchestrator.continue_assessment: the assessment agent is taken from its
\* property (TypeError unless the orchestrator holds one) and evaluate_response
\* runs the user's answer on the history the agent has.
ContinueAssessment(user_response) ==
    /\ pc = "idle"
    /\ LET assessment == AgentProperty("assessment", agents)
       IN IF assessment.raised # None
          THEN /\ ret' = Outcome("continue_assessment", None, PyNone, assessment.raised)
               /\ UNCHANGED agent_vars
          ELSE /\ Len(HistoryOf("assessment")) < MaxAssessHistory
               /\ agents' = assessment.agents
               /\ EnterRun("assessment", "continue_assessment", PyStr(user_response))
               /\ ret' = ret
    /\ replaced' = {}
    /\ UNCHANGED <<db, vs, state, active_subject_id, main>>

\* generate_lesson restoring the state it found when the agent access raises.
GenerateLesson_RestoresState ==
    /\ pc = "idle"
    /\ LET got == Orchestrator_get_active_subject(db, active_subject_id)
           assessment == AgentProperty("assessment", agents)
       IN /\ active_subject_id' = got.active
          /\ IF got.result = None
             THEN /\ ret' = Outcome("generate_lesson", None, PyStr(NoActive), "ValueError")
                  /\ UNCHANGED <<state, agent_vars>>
             ELSE IF assessment.raised # None
             THEN /\ ret' = Outcome("generate_lesson", None, PyNone, assessment.raised)
                  /\ UNCHANGED <<state, agent_vars>>
             ELSE /\ Len(HistoryOf("assessment")) < MaxAssessHistory
                  /\ Len(HistoryOf("lesson")) < MaxOrchHistory
                  /\ state' = "generating_lesson"
                  /\ agents' = assessment.agents
                  /\ EnterRun("assessment", "generate_lesson", SummaryPrompt)
                  /\ ret' = ret
    /\ replaced' = {}
    /\ UNCHANGED <<db, vs, main>>

\* Orchestrator.generate_lesson up to its first wait (lines 345-352).
\* GENERATING_LESSON is assigned, then the assessment agent is taken from its
\* property: the read raises TypeError unless the orchestrator holds an
\* assessment agent.  get_assessment_summary runs the summary prompt on that
\* agent's history; the operation goes on in GenerateLessonDeliver when the run
\* has returned.
GenerateLesson ==
    /\ pc = "idle"
    /\ LET got == Orchestrator_get_active_subject(db, active_subject_id)
           assessment == AgentProperty("assessment", agents)
       IN /\ active_subject_id' = got.active
          /\ IF got.result = None
             THEN /\ ret' = Outcome("generate_lesson", None, PyStr(NoActive), "ValueError")
                  /\ UNCHANGED <<state, agent_vars>>
             ELSE IF assessment.raised # None
             THEN /\ ret' = Outcome("generate_lesson", None, PyNone, assessment.raised)
                  /\ state' = "generating_lesson"
                  /\ UNCHANGED agent_vars
             ELSE /\ Len(HistoryOf("assessment")) < MaxAssessHistory
                  /\ Len(HistoryOf("lesson")) < MaxOrchHistory
                  /\ state' = "generating_lesson"
                  /\ agents' = assessment.agents
                  /\ EnterRun("assessment", "generate_lesson", SummaryPrompt)
                  /\ ret' = ret
    /\ replaced' = {}
    /\ UNCHANGED <<db, vs, main>>

\* Orchestrator.generate_lesson after the summary (lines 355-363): the topics
\* are read now, DELIVERING_LESSON is assigned and the lesson agent, constructed
\* on this read if need be, runs the lesson prompt on its own history.  The
\* summary is the text the assessment agent's run appended and returned; the
\* subject is the one looked up at the start of the operation, which is the
\* pointer: no operation of the orchestrator runs inside this one.
GenerateLessonDeliver ==
    /\ pc = "summary_returned"
    /\ LET lesson == AgentProperty("lesson", agents)
           summary == messages[Len(messages)].content.v
           topics == FirstTitles(get_knowledge_tree(db, active_subject_id))
       IN /\ state' = "delivering_lesson"
          /\ agents' = lesson.agents
          /\ EnterRun("lesson", "generate_lesson",
                      LessonPrompt(active_subject_id,
                                   IF topics = <<>> THEN <<"Introduction">> ELSE topics,
                                   summary))
    /\ replaced' = {}
    /\ UNCHANGED <<db, vs, active_subject_id, ret, main>>

----------------------------------------------------------------------------
\* The model collaborator: the responses messages.create can return.

\* A response is scripted as a sequence of <<kind, name, variant, subject, id>>.
Text(t) == <<"text", t, "-", "-", "-">>
Use(name, variant, subject, id) == <<"tool_use", name, variant, subject, id>>

\* A well-formed argument object for each tool.
OkArgs(name, subject_id) ==
    CASE name \in {"get_knowledge_node", "get_user_progress"} -> [node_id |-> 1]
      [] name \in {"get_knowledge_tree", "get_learning_goal", "set_active_subject"} ->
            [subject_id |-> subject_id]
      [] name = "record_assessment" ->
            [correct |-> TRUE, node_id |-> 1, question_hash |-> "q1", response |-> "r1"]
      [] name = "save_knowledge_node" -> [subject_id |-> subject_id, title |-> "T1"]
      [] name = "save_learning_goal" ->
            [purpose_statement |-> "p1", subject_id |-> subject_id]
      [] name = "store_knowledge" ->
            [confidence |-> 1, content |-> "c1", source_score |-> 1, source_url |-> "u1",
             subject_id |-> subject_id, topic_path |-> "T1"]
      [] name = "vector_search" -> [query |-> "q1", subject_id |-> subject_id]
      [] OTHER -> [k \in {} |-> None]

\* An argument object with further keys.
WithArgs(args, more) ==
    [k \in DOMAIN args \cup DOMAIN more |->
        IF k \in DOMAIN args THEN args[k] ELSE more[k]]

ArgsOf(name, variant, subject_id) ==
    CASE variant = "ok" -> OkArgs(name, subject_id)
      [] variant = "child" ->
            WithArgs(OkArgs(name, subject_id), [depth |-> 1, parent_id |-> 1])
      [] variant = "missing" -> [k \in {} |-> None]
      [] variant = "update" -> WithArgs(OkArgs(name, subject_id), [id |-> 1])
      [] variant = "extra" -> WithArgs(OkArgs(name, subject_id), [bogus |-> "x"])
      [] variant = "bad" ->
            IF name = "record_assessment"
            THEN [OkArgs(name, subject_id) EXCEPT !.question_hash = JsonObject]
            ELSE [OkArgs(name, subject_id) EXCEPT !.subject_id = JsonObject]

\* The argument objects tried for each tool: a well-formed one for every tool,
\* and each kind of ill-formed one for some.
Variants(name) ==
    CASE name \in {"get_active_subject", "list_subjects"} -> {"ok", "extra"}
      [] name \in {"get_knowledge_node", "set_active_subject"} -> {"ok", "missing"}
      [] name = "get_learning_goal" -> {"ok", "bad"}
      [] name = "record_assessment" -> {"ok", "missing", "bad"}
      [] name = "save_knowledge_node" -> {"ok", "child", "bad", "update"}
      [] name = "save_learning_goal" -> {"ok", "extra", "bad"}
      [] name = "store_knowledge" -> {"ok", "missing", "bad"}
      [] OTHER -> {"ok"}

BlockOf(e) ==
    IF e[1] = "text" THEN [text |-> e[2], type |-> "text"]
    ELSE [id |-> e[5], input |-> ArgsOf(e[2], e[3], e[4]), name |-> e[2],
          type |-> "tool_use"]

ResponseOf(script) == [i \in 1..Len(script) |-> BlockOf(script[i])]

ToolNames == TOOL_REGISTRY \cup {"no_such_tool"}

\* Responses of the loop specification: every tool with every argument variant
\* alone, and some responses with two invocations.

LoopScripts ==
    {<<Text("done")>>, <<Text("part1"), Text("part2")>>}
    \cup {<<Use(n, x, "s1", "tu1")>> : <<n, x>> \in
            {<<n, x>> \in ToolNames \X {"ok", "child", "missing", "extra", "bad", "update"} :
                x \in Variants(n)}}
    \cup {<<Text("thinking"), Use("set_active_subject", "ok", "s1", "tu1")>>}
    \cup {<<Use("save_knowledge_node", "ok", "s1", "tu1"),
            Use("no_such_tool", "ok", "s1", "tu2")>>,
          <<Use("save_learning_goal", "missing", "s1", "tu1"),
            Use("store_knowledge", "ok", "s1", "tu2")>>,
          <<Use("save_knowledge_node", "ok", "s1", "tu1"),
            Use("record_assessment", "ok", "s1", "tu2")>>,
          <<Use("record_assessment", "ok", "s1", "tu1"),
            Use("save_knowledge_node", "ok", "s1", "tu2")>>,
          <<Use("no_such_tool", "ok", "s1", "tu1"),
            Use("record_assessment", "ok", "s1", "tu2"),
            Use("save_knowledge_node", "ok", "s1", "tu3")>>}

\* Responses of the orchestrator specification: the store-changing tools.
OrchScripts ==
    {<<Text("done")>>}
    \cup {<<Use("set_active_subject", "ok", s, "tu1")>> : s \in Subjects}
    \cup {<<Use("save_knowledge_node", "ok", s, "tu1"),
            Use("store_knowledge", "ok", s, "tu2")>> : s \in Subjects}

\* The executor the orchestrator hands to the agents it can construct.
AgentExecutor == "execute"

\* tool_executor of each agent: the agents the orchestrator constructs get its
\* executor; the assessment agent, which it cannot construct, is one built with
\* the defaults of BaseAgent, without an executor.
ExecutorOf(agent) == IF agent = "assessment" THEN None ELSE AgentExecutor

\* The run in progress is the one get_assessment_summary started inside
\* generate_lesson: its return is not yet the return of the operation.
SummaryRun == caller = "generate_lesson" /\ held.agent = "assessment"

RECURSIVE Factorial(_)
Factorial(n) == IF n = 0 THEN 1 ELSE n * Factorial(n - 1)

\* The answers the collection can give to the i-th tool call of a response: a
\* call of vector_search can get any ranking of the stored chunks, the other
\* tools do not query the collection.
RankingsFor(tool_uses, i, v) ==
    IF i <= Len(tool_uses) /\ tool_uses[i].name = "vector_search"
    THEN 0..(Factorial(Cardinality(v)) - 1)
    ELSE {0}

\* messages.create returned `response`: BaseAgent.run records it and either
\* returns its text or runs its first tool.
ModelRespond(response, max_iters) ==
    /\ pc = "awaiting_model"
    /\ ToolUses(response) # <<>> => model_calls < max_iters
    /\ \E ranking \in RankingsFor(ToolUses(response), 1, vs) :
       \E body \in {LoopBody(ExecutorOf(held.agent), messages, response, db, vs,
                             ranking)} :
          /\ body.db.goal_seq <= MaxGoalSeq
          /\ body.db.node_seq <= MaxRowId
          /\ messages' = body.messages
          /\ db' = body.db
          /\ vs' = body.vs
          /\ model_calls' = model_calls + 1
          /\ responses' = Append(responses, response)
          /\ exec_log' = Append(exec_log, body.log)
          /\ pc' = CASE body.next = "loop" -> "awaiting_model"
                     [] body.next = "tools" -> "running_tools"
                     [] body.next = "return" /\ SummaryRun -> "summary_returned"
                     [] OTHER -> "idle"
          /\ ret' = CASE body.next = "return" /\ ~ SummaryRun ->
                            Outcome(caller, None, PyStr(body.result), None)
                      [] body.next = "raise" ->
                            Outcome(caller, None, PyNone, body.raised)
                      [] OTHER -> ret
    /\ replaced' = {}
    /\ UNCHANGED <<state, active_subject_id, agents, held, caller, run_base, main>>

\* messages.create raises (base.py:88): the exception leaves run, and the
\* orchestrator operation that called it, with the history as the call found it.
ModelCallRaises ==
    /\ pc = "awaiting_model"
    /\ model_calls' = model_calls + 1
    /\ pc' = "idle"
    /\ ret' = Outcome(caller, None, PyNone, "Exception")
    /\ replaced' = {}
    /\ UNCHANGED <<db, vs, state, active_subject_id, agents, messages, held, caller,
                   run_base, responses, exec_log, main>>

\* The for loop of BaseAgent.run runs the next tool of the response it is
\* working on; after the last one the results are appended as one user turn.
RunNextTool ==
    /\ pc = "running_tools"
    /\ \E ranking \in RankingsFor(ToolUses(responses[Len(responses)]),
                                   Len(exec_log[Len(exec_log)]) + 1, vs) :
       \E body \in {ContinueTools(ExecutorOf(held.agent), messages,
                                  ToolUses(responses[Len(responses)]),
                                  exec_log[Len(exec_log)], db, vs, ranking)} :
          /\ body.db.goal_seq <= MaxGoalSeq
          /\ body.db.node_seq <= MaxRowId
          /\ messages' = body.messages
          /\ db' = body.db
          /\ vs' = body.vs
          /\ exec_log' = [exec_log EXCEPT ![Len(exec_log)] = body.log]
          /\ pc' = CASE body.next = "loop" -> "awaiting_model"
                     [] body.next = "tools" -> "running_tools"
                     [] OTHER -> "idle"
          /\ ret' = IF body.next = "raise"
                    THEN Outcome(caller, None, PyNone, body.raised)
                    ELSE ret
    /\ replaced' = {}
    /\ UNCHANGED <<state, active_subject_id, agents, held, caller, run_base,
                   model_calls, responses, main>>

OrchModelRespond ==
    \E script \in OrchScripts : ModelRespond(ResponseOf(script), MaxOrchIters)

\* Responses of the workflow specification: a final text, the tool that
\* rewrites the persisted active subject, and a round that writes to both stores.
WorkflowScripts ==
    {<<Text("done")>>,
     <<Use("set_active_subject", "ok", "s2", "tu1")>>,
     <<Use("save_knowledge_node", "ok", "s1", "tu1"),
       Use("store_knowledge", "ok", "s1", "tu2")>>}

WorkflowModelRespond ==
    \E script \in WorkflowScripts : ModelRespond(ResponseOf(script), MaxOrchIters)

LoopModelRespond ==
    \E script \in LoopScripts : ModelRespond(ResponseOf(script), MaxIters)

\* Responses of the history specification: a final text, a final text in two
\* blocks, text next to an invocation, and a round of two invocations.
HistoryScripts ==
    {<<Text("done")>>,
     <<Text("part1"), Text("part2")>>,
     <<Text("thinking"), Use("set_active_subject", "ok", "s1", "tu1")>>,
     <<Use("save_knowledge_node", "ok", "s1", "tu1"),
       Use("no_such_tool", "ok", "s1", "tu2")>>}

HistoryModelRespond ==
    \E script \in HistoryScripts : ModelRespond(ResponseOf(script), MaxIters)

\* BaseAgent.run / continue_conversation called on the research agent.
AgentRun(text) ==
    /\ pc = "idle"
    /\ Len(HistoryOf("research")) < MaxHistory
    /\ agents' = agents \cup {"research"}
    /\ EnterRun("research", "run", PyStr(text))
    /\ replaced' = {}
    /\ UNCHANGED <<db, vs, state, active_subject_id, ret, main>>

\* BaseAgent.clear_messages called on the agent: the history is replaced by an
\* empty list.
ClearMessages ==
    /\ pc = "idle"
    /\ messages' = <<>>
    /\ ret' = Outcome("clear_messages", None, PyNone, None)
    /\ replaced' = {}
    /\ UNCHANGED <<db, vs, state, active_subject_id, agents, held, pc, caller,
                   run_base, model_calls, responses, exec_log, main>>

\* BaseAgent.add_user_message called on the agent: one user turn is appended
\* and no model call is made.
AddUserMessage(content) ==
    /\ pc = "idle"
    /\ Len(messages) < MaxHistory
    /\ messages' = Append(messages, UserMessage(PyStr(content)))
    /\ ret' = Outcome("add_user_message", content, PyNone, None)
    /\ replaced' = {}
    /\ UNCHANGED <<db, vs, state, active_subject_id, agents, held, pc, caller,
                   run_base, model_calls, responses, exec_log, main>>

\* BaseAgent.add_assistant_message called on the agent: one assistant turn is
\* appended.
AddAssistantMessage(content) ==
    /\ pc = "idle"
    /\ Len(messages) < MaxHistory
    /\ messages' = Append(messages, AssistantMessage(PyStr(content)))
    /\ ret' = Outcome("add_assistant_message", content, PyNone, None)
    /\ replaced' = {}
    /\ UNCHANGED <<db, vs, state, active_subject_id, agents, held, pc, caller,
                   run_base, model_calls, responses, exec_log, main>>

\* The members of WorkflowState.
WorkflowState ==
    {"idle", "initializing", "researching", "assessing", "generating_lesson",
     "delivering_lesson", "exercising"}

\* An assignment to the public property Orchestrator.state.
SetState(value) ==
    /\ pc = "idle"
    /\ state' = value
    /\ ret' = Outcome("state", value, PyNone, None)
    /\ replaced' = {}
    /\ UNCHANGED <<db, vs, active_subject_id, agent_vars, main>>

----------------------------------------------------------------------------
\* Specifications.

\* Where the relational delete fails: nowhere (0), at its i-th DELETE, or at its
\* commit.  The orchestrator specification takes the first and the last point.
FailPoints == 0..(NumDeleteStatements + 1)
OrchFailPoints == {0, 1, NumDeleteStatements + 1}

Next ==
    \/ \E s \in Subjects, p \in Purposes : InitializeSubject(s, p)
    \/ \E s \in Subjects : SetActiveSubject(s)
    \/ GetActiveSubject
    \/ \E s \in Subjects, f \in BOOLEAN, k \in OrchFailPoints :
            (f => k = 0) /\ DeleteSubject(s, f, k)
    \/ StartResearch
    \/ OrchModelRespond
    \/ RunNextTool

Spec == Init /\ [][Next]_vars

NextLoop ==
    \/ \E t \in {"hello"} : AgentRun(t)
    \/ LoopModelRespond
    \/ RunNextTool

SpecLoop == Init /\ [][NextLoop]_vars

\* The loop on an agent whose history is also edited through the public
\* methods of BaseAgent between two runs.
NextHistory ==
    \/ \E t \in {"hello"} : AgentRun(t)
    \/ HistoryModelRespond
    \/ RunNextTool
    \/ ClearMessages
    \/ AddUserMessage("hello")
    \/ AddAssistantMessage("done")

SpecHistory == Init /\ [][NextHistory]_vars

\* The model answers with a response that holds no tool_use block.
TextRespond ==
    \E script \in {x \in LoopScripts : ToolUses(ResponseOf(x)) = <<>>} :
        ModelRespond(ResponseOf(script), MaxIters)

\* The loop under the assumption that a pending model call is eventually
\* answered by a response without tool_use blocks.
SpecLoopFair == SpecLoop /\ WF_vars(TextRespond) /\ WF_vars(RunNextTool)

\* The relational store on its own: the methods of Database called directly.
InitDb ==
    /\ db \in {EmptyDb, SeededDb}
    /\ vs = {}
    /\ state = "idle"
    /\ active_subject_id = None
    /\ agents = {}
    /\ messages = <<>>
    /\ held = HeldAtStart
    /\ pc = "idle"
    /\ caller = None
    /\ run_base = 0
    /\ model_calls = 0
    /\ responses = <<>>
    /\ exec_log = <<>>
    /\ ret = Outcome("initialize", None, PyNone, None)
    /\ replaced = {}
    /\ main = MainAtCommand

NextDb ==
    \/ \E s \in Subjects, p \in Purposes : DbSaveLearningGoal(s, p)
    \/ \E s \in Subjects : DbSaveKnowledgeNode(s)
    \/ \E s \in Subjects : DbSetSetting(s)
    \/ \E s \in Subjects, k \in FailPoints : DbDeleteSubject(s, k)

SpecDb == InitDb /\ [][NextDb]_vars

\* The workflow operations of the orchestrator.
NextWorkflow ==
    \/ \E s \in Subjects, p \in Purposes : InitializeSubject(s, p)
    \/ InitializeSubject("s2", "p2")
    \/ StartCurriculumDesign
    \/ ContinueCurriculumDesign
    \/ StartResearch
    \/ \E t \in Titles : ContinueResearch(t)
    \/ StartLesson
    \/ \E u \in Titles : ContinueAssessment(u)
    \/ GenerateLesson
    \/ GetResearchProgress(None)
    \/ \E s \in Subjects : DeleteSubject(s, FALSE, 0)
    \/ WorkflowModelRespond
    \/ RunNextTool

SpecWorkflow == Init /\ [][NextWorkflow]_vars

\* The start operations on an orchestrator whose state is also assigned
\* through the public property, so that they are called in every state, and
\* which can be given an assessment agent.
NextSetter ==
    \/ \E s \in Subjects, p \in Purposes : InitializeSubject(s, p)
    \/ \E value \in WorkflowState : SetState(value)
    \/ SupplyAssessmentAgent
    \/ StartCurriculumDesign
    \/ StartResearch
    \/ StartLesson
    \/ WorkflowModelRespond
    \/ RunNextTool

SpecSetter == Init /\ [][NextSetter]_vars

\* The continue operations on such an orchestrator.
NextContinue ==
    \/ \E s \in Subjects, p \in Purposes : InitializeSubject(s, p)
    \/ \E value \in WorkflowState : SetState(value)
    \/ SupplyAssessmentAgent
    \/ ContinueCurriculumDesign
    \/ \E u \in Titles : ContinueResearch(u)
    \/ \E r \in Titles : ContinueAssessment(r)
    \/ WorkflowModelRespond
    \/ RunNextTool

SpecContinue == Init /\ [][NextContinue]_vars

\* The tool definitions generated beside an orchestrator whose stores change.
NextSchema ==
    \/ \E n \in TOOL_REGISTRY : GetToolDefinition(n)
    \/ \E s \in Subjects, p \in Purposes : InitializeSubject(s, p)
    \/ \E s \in Subjects : DeleteSubject(s, FALSE, 0)

SpecSchema == Init /\ [][NextSchema]_vars

\* CLI sessions: chiron init, then chiron research start, each command on an
\* orchestrator of its own.  The main thread starts a thread for start_research,
\* later for continue_research, renders beside it and prints its result.
NextCli ==
    \/ \E s \in Subjects, p \in Purposes :
            main.at = "command" /\ ret.op = "__init__" /\ InitializeSubject(s, p)
    \/ main.at = "command" /\ NewOrchestrator
    \/ CliResearchStart
    \/ CliStartThread
    \/ \E u \in Titles : CliPrompt(u)
    \/ CliDone
    \/ CliRunStartResearch
    \/ CliRunContinueResearch
    \/ CliRenderSubject
    \/ CliRenderTree
    \/ CliRenderCounts
    \/ CliCheckAlive
    \/ WorkflowModelRespond
    \/ RunNextTool
    \/ CliConsume

SpecCli == Init /\ [][NextCli]_vars

\* Orchestrators constructed one after the other over the same stores; a read
\* of research_agent or lesson_agent constructs the agent and caches it.
NextRestart ==
    \/ \E s \in Subjects, p \in Purposes : InitializeSubject(s, p)
    \/ \E s \in Subjects : DeleteSubject(s, FALSE, 0)
    \/ StartResearch
    \/ StartLesson
    \/ WorkflowModelRespond
    \/ RunNextTool
    \/ GetActiveSubject
    \/ \E name \in {"research", "lesson"} : ReadAgent(name)
    \/ NewOrchestrator

SpecRestart == Init /\ [][NextRestart]_vars

\* The two bundles of metadata a chunk is stored with.
Metadata ==
    {[confidence |-> 1, contradictions |-> <<>>, last_validated |-> 1,
      source_score |-> 1, source_url |-> "u1"],
     [confidence |-> 0, contradictions |-> <<"n1">>, last_validated |-> 2,
      source_score |-> 0, source_url |-> "u2"]}

KnowledgeChunk(m, content, subject_id, topic_path) ==
    [confidence |-> m.confidence, content |-> content,
     contradictions |-> m.contradictions, last_validated |-> m.last_validated,
     source_score |-> m.source_score, source_url |-> m.source_url,
     subject_id |-> subject_id, topic_path |-> topic_path]

\* The vector store on its own: the methods of VectorStore called directly.
NextVector ==
    \/ \E m \in Metadata, c \in Contents, s \in Subjects, t \in TopicPaths :
            VsStoreKnowledge(KnowledgeChunk(m, c, s, t))
    \/ \E q \in {"q1", "c1"}, s \in Subjects, k \in {1, 5}, c \in {0, 1} :
            VsSearch(q, s, k, c)
    \/ \E s \in Subjects : VsDeleteSubject(s)

SpecVector == Init /\ [][NextVector]_vars

\* Subject ids and topic paths that contain the separator of the id's string.
ColonSubjects == {"s1", "s1:T1"}
ColonTopicPaths == {"T1", "T1:T1"}

\* The vector store with facts whose subject id or topic path contains ':'.
NextIds ==
    \/ \E m \in Metadata, c \in Contents, s \in ColonSubjects, t \in ColonTopicPaths :
            VsStoreKnowledge(KnowledgeChunk(m, c, s, t))
    \/ \E s \in ColonSubjects : VsDeleteSubject(s)

SpecIds == Init /\ [][NextIds]_vars

\* The knowledge_nodes table: inserts, updates and the subject's query.
NextTree ==
    \/ \E s \in Subjects, t \in Titles, p \in 0..MaxRowId : DbSaveChildNode(s, t, p)
    \/ \E id \in 1..MaxRowId, s \in Subjects, depth \in 0..MAX_DISPLAY_DEPTH :
            DbUpdateKnowledgeNode(id, s, depth)
    \/ \E s \in Subjects : DbGetKnowledgeTree(s)

SpecTree == Init /\ [][NextTree]_vars

\* The progress display over the tree of the active subject.
NextDisplay ==
    \/ \E s \in Subjects, p \in Purposes : InitializeSubject(s, p)
    \/ \E s \in Subjects, t \in Titles, p \in 0..MaxTreeNodes : DbSaveTreeNode(s, t, p)
    \/ BuildTree

SpecDisplay == Init /\ [][NextDisplay]_vars

\* Subjects with nodes and facts of their own, deleted and initialized again.
NextDelete ==
    \/ \E s \in Subjects, p \in Purposes : InitializeSubject(s, p)
    \/ InitializeSubject("s2", "p2")
    \/ \E s \in Subjects, t \in Titles : DbSaveChildNode(s, t, 0)
    \/ \E m \in {x \in Metadata : x.confidence = 1}, c \in Contents, s \in Subjects,
            t \in Titles : VsStoreKnowledge(KnowledgeChunk(m, c, s, t))
    \/ \E s \in Subjects : DeleteSubject(s, FALSE, 0)

SpecDelete == Init /\ [][NextDelete]_vars

\* The response of the failure specification: a final text.  The agent calls of
\* this specification fail where they wait: messages.create raises.
RaiseModelRespond ==
    \E script \in {<<Text("done")>>} : ModelRespond(ResponseOf(script), MaxOrchIters)

\* The operations that assign the workflow state, with the failures that can
\* follow the assignment, on one subject, and on an orchestrator that can be
\* given an assessment agent.  While generate_lesson waits for the summary
\* another thread can save a node of the subject.
NextRaise ==
    \/ \E p \in Purposes : InitializeSubject("s1", p)
    \/ \E p \in Purposes, k \in {1, 2, 3} : InitializeSubjectFails("s1", p, k)
    \/ StartCurriculumDesign
    \/ StartResearch
    \/ SupplyAssessmentAgent
    \/ StartLesson
    \/ GenerateLesson
    \/ GenerateLessonDeliver
    \/ pc = "awaiting_model" /\ SummaryRun /\ DbSaveChildNode("s1", "T1", 0)
    \/ RaiseModelRespond
    \/ ModelCallRaises

SpecRaise == Init /\ [][NextRaise]_vars

\* Progress reporting over a tree and facts written to the two stores.
NextProgress ==
    \/ \E s \in Subjects, t \in NodeTitles, p \in 0..MaxRowId : DbSaveChildNode(s, t, p)
    \/ \E m \in {x \in Metadata : x.confidence = 1}, c \in Contents, s \in Subjects,
            t \in TopicPaths : VsStoreKnowledge(KnowledgeChunk(m, c, s, t))
    \/ \E s \in Subjects \cup {None} : GetResearchProgress(s)

SpecProgress == Init /\ [][NextProgress]_vars

----------------------------------------------------------------------------
\* Properties of the tool-calling loop (SpecLoop; C1 under SpecHistory, where
\* the history a run starts on is also edited through the public methods).

\* C1: when run has returned after k responses that request tools and one that
\* requests none, the model was called k+1 times, k tool-result user turns were
\* appended (one after each tool-requesting response), every requested tool was
\* executed exactly once, and run returned the text of the last response.
C1_LoopCounts ==
    (pc = "idle" /\ caller = "run" /\ ret.op = "run" /\ ret.raised = None) =>
        LET n == Len(responses)
            k == Cardinality({i \in 1..n : ToolUses(responses[i]) # <<>>})
            turns == {j \in (run_base + 2)..Len(messages) : messages[j].role = "user"}
        IN /\ n = k + 1
           /\ model_calls = k + 1
           /\ \A i \in 1..k : ToolUses(responses[i]) # <<>>
           /\ ToolUses(responses[n]) = <<>>
           /\ Cardinality(turns) = k
           /\ turns = {run_base + 2 * i + 1 : i \in 1..k}
           /\ \A i \in 1..n :
                LET tool_uses == ToolUses(responses[i])
                IN /\ Len(exec_log[i]) = Len(tool_uses)
                   /\ \A j \in 1..Len(tool_uses) :
                        Cardinality({m \in 1..Len(exec_log[i]) :
                                        /\ exec_log[i][m].id = tool_uses[j].id
                                        /\ exec_log[i][m].name = tool_uses[j].name
                                        /\ exec_log[i][m].input = tool_uses[j].input}) = 1
           /\ ret.result = PyStr(_extract_text(responses[n]))

\* A run that returned after two tool-requesting responses, one of them with two
\* invocations and one with text next to its invocation.
C1_Witness ==
    /\ pc = "idle" /\ caller = "run" /\ ret.op = "run" /\ ret.raised = None
    /\ Len(responses) = 3
    /\ \E i \in 1..2 : Len(ToolUses(responses[i])) = 2
    /\ \E i \in 1..2 : _extract_text(responses[i]) # ""
    /\ ret.result = PyStr("part1part2")

\* C2: the executor never raises to its caller; it returns the Unknown-tool error
\* dict for a name outside the registry, an error dict with the exception's
\* message when the registered tool raises, and the tool's result otherwise.
C2_ExecutorTotal ==
    \A i \in 1..Len(exec_log) : \A m \in 1..Len(exec_log[i]) :
        LET e == exec_log[i][m]
        IN /\ e.raised = None
           /\ e.name \notin TOOL_REGISTRY =>
                e.result = PyDict([error |-> PyStr("Unknown tool: " \o e.name)])
           /\ e.name \in TOOL_REGISTRY =>
                \E ranking \in 0..(Factorial(Cardinality(e.before.vs)) - 1) :
                    \E out \in {CallTool(e.name, e.input, e.before.db, e.before.vs,
                                          ranking)} :
                        e.result = IF out.raised # None
                                   THEN PyDict([error |-> PyStr(out.res)])
                                   ELSE out.res

\* One turn in which the executor met an unknown name, a tool that raised and a
\* tool that returned.
C2_Witness ==
    LET entries == {exec_log[i][m] : <<i, m>> \in
                        {<<i, m>> \in (1..Len(exec_log)) \X (1..2) :
                            m <= Len(exec_log[i])}}
    IN /\ \E e \in entries : e.name = "no_such_tool"
       /\ \E e \in entries : /\ e.name \in TOOL_REGISTRY
                              /\ e.result.py = "dict"
                              /\ "error" \in DOMAIN e.result.v
       /\ \E e \in entries : /\ e.name = "save_knowledge_node"
                              /\ e.result.py = "dict"
                              /\ "id" \in DOMAIN e.result.v

\* C3: no tool call can make run raise: every value the executor returns is
\* JSON-serializable, so the loop appends it and goes on to the next model call.
C3_ToolResultsSerializable ==
    /\ \A i \in 1..Len(exec_log) : \A m \in 1..Len(exec_log[i]) :
            Serializable(exec_log[i][m].result)
    /\ ret.op = "run" => ret.raised = None

\* C4: within one pass of the loop the tools are executed in the order of the
\* response's tool-invocation blocks, and the tool_result entries of the user
\* turn that follows are in that order, each with the id of its invocation.
C4_RequestOrder ==
    \A i \in 1..Len(responses) :
        LET tool_uses == ToolUses(responses[i])
            at == run_base + 2 * i + 1
        IN tool_uses # <<>> =>
            /\ Len(exec_log[i]) <= Len(tool_uses)
            /\ \A m \in 1..Len(exec_log[i]) :
                    /\ exec_log[i][m].id = tool_uses[m].id
                    /\ exec_log[i][m].name = tool_uses[m].name
                    /\ exec_log[i][m].input = tool_uses[m].input
            /\ Len(messages) >= at =>
                    LET tool_results == messages[at].content.v
                    IN /\ messages[at].role = "user"
                       /\ Len(tool_results) = Len(tool_uses)
                       /\ Len(exec_log[i]) = Len(tool_uses)
                       /\ \A m \in 1..Len(tool_uses) :
                            /\ tool_results[m].type = "tool_result"
                            /\ tool_results[m].tool_use_id = tool_uses[m].id
                            /\ tool_results[m].content
                                    = json_dumps(exec_log[i][m].result).text

\* A pass with two different invocations whose results have been appended.
C4_Witness ==
    \E i \in 1..Len(responses) :
        LET tool_uses == ToolUses(responses[i])
        IN /\ Len(tool_uses) = 2
           /\ tool_uses[1].name # tool_uses[2].name
           /\ tool_uses[1].id # tool_uses[2].id
           /\ Len(messages) >= run_base + 2 * i + 1
           /\ Len(messages[run_base + 2 * i + 1].content.v) = 2

----------------------------------------------------------------------------
\* Properties of subject management (Spec).

\* C5: after any sequence of orchestrator operations and agent tool calls, the
\* in-memory active-subject pointer, when it is not None, equals the persisted
\* 'active_subject' setting.
C5_PointerMatchesSetting ==
    active_subject_id # None => active_subject_id = get_setting(db, "active_subject")

\* C6: Orchestrator.set_active_subject on a subject without a learning goal raises
\* the not-found error and leaves the in-memory pointer and the persisted setting
\* as they were.
C6_SetUnknownSubject ==
    [][\A s \in Subjects :
        (~ HasGoal(db, s) /\ SetActiveSubject(s)) =>
            /\ ret'.raised = "ValueError"
            /\ active_subject_id' = active_subject_id
            /\ get_setting(db', "active_subject") = get_setting(db, "active_subject")
            /\ db' = db]_vars

\* set_active_subject has just failed on an unknown subject while another subject
\* was active, in memory and in the store.
C6_Witness ==
    /\ ret.op = "set_active_subject"
    /\ ret.raised = "ValueError"
    /\ ~ HasGoal(db, ret.arg)
    /\ active_subject_id \in Subjects \ {ret.arg}
    /\ get_setting(db, "active_subject") = active_subject_id

\* C10: Orchestrator.delete_subject deletes from the vector store, then clears the
\* in-memory pointer if it is the subject, then runs the relational cascade, and
\* compensates nothing: when the vector delete raises nothing else has happened;
\* when the relational delete raises, the subject's chunks are gone and the
\* pointer is cleared while its learning goal and nodes are still there.
C10_DeleteOrder ==
    [][\A s \in Subjects, f \in BOOLEAN, k \in OrchFailPoints :
        (ret'.op = "delete_subject" /\ ret'.arg = s /\ (f => k = 0)
            /\ DeleteSubject(s, f, k)) =>
            LET cleared == IF active_subject_id = s THEN None ELSE active_subject_id
                facts_gone == {c \in vs : c.chunk.subject_id # s}
            IN /\ f => /\ ret'.raised = "VectorStoreError"
                       /\ vs' = vs /\ active_subject_id' = active_subject_id /\ db' = db
               /\ (~ f /\ k # 0 /\ HasGoal(db, s)) =>
                       /\ ret'.raised = "OperationalError"
                       /\ vs' = facts_gone
                       /\ active_subject_id' = cleared
                       /\ db' = db
                       /\ HasGoal(db', s)
               /\ (~ f /\ (k = 0 \/ ~ HasGoal(db, s))) =>
                       /\ ret'.raised = None
                       /\ ret'.result = PyBool(HasGoal(db, s))
                       /\ vs' = facts_gone
                       /\ active_subject_id' = cleared
                       /\ ~ HasGoal(db', s)]_vars

\* delete_subject has just raised from the relational delete: the subject still
\* has its learning goal and a node, the chunk an agent stored for it is gone, and
\* the pointer that named it is cleared while the setting still names it.
C10_Witness ==
    /\ ret.op = "delete_subject"
    /\ ret.raised = "OperationalError"
    /\ HasGoal(db, ret.arg)
    /\ \E n \in db.knowledge_nodes : n.subject_id = ret.arg
    /\ \E i \in 1..Len(exec_log) : \E m \in 1..Len(exec_log[i]) :
            /\ exec_log[i][m].name = "store_knowledge"
            /\ exec_log[i][m].input.subject_id = ret.arg
    /\ ~ \E c \in vs : c.chunk.subject_id = ret.arg
    /\ active_subject_id = None
    /\ get_setting(db, "active_subject") = ret.arg

----------------------------------------------------------------------------
\* Properties of Database.delete_subject (SpecDb).

\* C7: Database.delete_subject on a subject without a learning goal returns false
\* and changes no row of any table, also when the active-subject setting names
\* the subject or knowledge nodes carry its id.
C7_DeleteUnknownSubject ==
    [][\A s \in Subjects, k \in FailPoints :
        (ret'.op = "Database.delete_subject" /\ ret'.arg = s /\ ~ HasGoal(db, s)
            /\ DbDeleteSubject(s, k)) =>
            /\ ret'.result = PyBool(FALSE)
            /\ ret'.raised = None
            /\ db' = db]_vars

\* delete_subject has just returned false for a subject that has no goal but is
\* named by the setting and by a node, in a store that holds lessons and responses.
C7_Witness ==
    /\ ret.op = "Database.delete_subject"
    /\ ret.result = PyBool(FALSE)
    /\ ret.raised = None
    /\ ~ HasGoal(db, ret.arg)
    /\ get_setting(db, "active_subject") = ret.arg
    /\ \E n \in db.knowledge_nodes : n.subject_id = ret.arg
    /\ \E l \in db.lessons : l.subject_id = ret.arg
    /\ db.responses # {}

\* C8: Database.delete_subject on an existing subject returns true; afterwards the
\* subject has no learning goal, node or lesson, the active-subject setting is
\* absent if it named the subject and unchanged otherwise, the rows of other
\* subjects are untouched, and the same delete repeated at once returns false.
C8_DeleteExistingSubject ==
    [][\A s \in Subjects :
        (ret'.op = "Database.delete_subject" /\ ret'.arg = s /\ HasGoal(db, s)
            /\ DbDeleteSubject(s, 0)) =>
            LET before == get_setting(db, "active_subject")
                Others(rows) == {r \in rows : r.subject_id # s}
                gone == {l.id : l \in {l \in db.lessons : l.subject_id = s}}
            IN /\ ret'.result = PyBool(TRUE)
               /\ ret'.raised = None
               /\ db'.learning_goals = Others(db.learning_goals)
               /\ db'.knowledge_nodes = Others(db.knowledge_nodes)
               /\ db'.lessons = Others(db.lessons)
               /\ db'.responses = {r \in db.responses : r.lesson_id \notin gone}
               /\ get_setting(db', "active_subject") = (IF before = s THEN None ELSE before)
               /\ db'.settings = {r \in db.settings :
                                    ~ (r.key = "active_subject" /\ r.value = s)}
               /\ Database_delete_subject(db', s, 0).result = FALSE
               /\ Database_delete_subject(db', s, 0).db = db']_vars

\* delete_subject has just returned true for a subject while the other subject
\* keeps its goal, a node, its lesson and response, and the setting that names it.
C8_Witness ==
    /\ ret.op = "Database.delete_subject"
    /\ ret.result = PyBool(TRUE)
    /\ ~ HasGoal(db, ret.arg)
    /\ \E o \in Subjects \ {ret.arg} :
            /\ HasGoal(db, o)
            /\ get_setting(db, "active_subject") = o
            /\ \E n \in db.knowledge_nodes : n.subject_id = o
            /\ \E l \in db.lessons : l.subject_id = o /\ \E r \in db.responses : r.lesson_id = l.id
    /\ ~ \E l \in db.lessons : l.subject_id = ret.arg
    /\ db.node_seq = MaxRowId

\* C9: the cascade of Database.delete_subject is atomic: when one of its
\* statements or its commit fails, the transaction is rolled back and every row
\* is still there; a call leaves either the rows as they were or the whole
\* cascade applied.
C9_CascadeAtomic ==
    [][\A s \in Subjects, k \in FailPoints :
        (ret'.op = "Database.delete_subject" /\ ret'.arg = s
            /\ DbDeleteSubject(s, k)) =>
            /\ (HasGoal(db, s) /\ k # 0) =>
                    /\ ret'.raised = "OperationalError"
                    /\ db' = db
            /\ db' \in {db, DeleteStatements(db, s, NumDeleteStatements)}]_vars

\* delete_subject has just raised for a subject that still has its goal, a node,
\* a lesson with a response, and the setting naming it.
C9_Witness ==
    /\ ret.op = "Database.delete_subject"
    /\ ret.raised = "OperationalError"
    /\ HasGoal(db, ret.arg)
    /\ \E n \in db.knowledge_nodes : n.subject_id = ret.arg
    /\ \E l \in db.lessons : l.subject_id = ret.arg /\ \E r \in db.responses : r.lesson_id = l.id
    /\ get_setting(db, "active_subject") = ret.arg

----------------------------------------------------------------------------
\* Properties of progress reporting (SpecProgress).

\* C11: get_research_progress returns exactly one entry per knowledge node of the
\* subject, and a total_facts equal to the sum of the fact_count values of the
\* entries it returns, whatever facts are stored.
C11_ProgressTotals ==
    [][\A s \in Subjects :
        (ret'.op = "get_research_progress" /\ GetResearchProgress(s)) =>
            LET entries == ret'.result.v.nodes.v
                counted == {p \in (1..Len(entries)) \X (1..Cardinality(vs)) :
                                p[2] <= entries[p[1]].v.fact_count.v}
            IN /\ Len(entries)
                    = Cardinality({n \in db.knowledge_nodes : n.subject_id = s})
               /\ ret'.result.v.total_facts.v = Cardinality(counted)]_vars

\* C12: the fact_count of a node's entry is the number of stored chunks of the
\* subject whose topic_path is exactly the node's title: nothing is rolled up
\* from descendants, and a node without an exactly matching fact reports 0.
C12_ExactTitleCounts ==
    [][\A s \in Subjects :
        (ret'.op = "get_research_progress" /\ GetResearchProgress(s)) =>
            LET entries == ret'.result.v.nodes.v
                tree == get_knowledge_tree(db, s)
            IN /\ Len(entries) = Len(tree)
               /\ \A i \in 1..Len(entries) :
                    /\ entries[i].v.id.v = tree[i].id
                    /\ entries[i].v.title.v = tree[i].title
                    /\ entries[i].v.fact_count.v
                        = Cardinality({c \in vs : /\ c.chunk.subject_id = s
                                                  /\ c.chunk.topic_path = tree[i].title})]_vars

\* Progress was just reported for a subject with a root that has no fact of its
\* own and a child that has one, while a fact is stored under the path through
\* the root and another subject holds a fact under the root's title.
C12_Witness ==
    /\ ret.op = "get_research_progress"
    /\ ret.raised = None
    /\ LET entries == ret.result.v.nodes.v
       IN /\ Len(entries) = 2
          /\ entries[1].v.depth.v = 0 /\ entries[1].v.fact_count.v = 0
          /\ entries[2].v.depth.v = 1 /\ entries[2].v.fact_count.v = 1
          /\ \E c \in vs : /\ c.chunk.subject_id = ret.arg
                           /\ c.chunk.topic_path = "T1/T2"
          /\ \E c \in vs : /\ c.chunk.subject_id # ret.arg
                           /\ c.chunk.topic_path = entries[1].v.title.v
          /\ \A i \in 1..2 : \E n \in db.knowledge_nodes :
                n.subject_id = ret.arg /\ n.id = entries[i].v.id.v

\* ---------------------------------------------------------------------------
\* Properties of the vector store (SpecVector)

SameKey(a, b) ==
    /\ a.subject_id = b.subject_id
    /\ a.topic_path = b.topic_path
    /\ a.content = b.content

\* C13: storing a chunk whose subject, topic path and content equal those of a
\* stored chunk leaves the number of stored chunks unchanged, and the one stored
\* chunk with that key then carries the new source, scores, confidence,
\* contradictions and timestamp; every other stored chunk is untouched.
C13_IdempotentUpsert ==
    [][\A m \in Metadata, c \in Contents, s \in Subjects, t \in TopicPaths :
          LET chunk == KnowledgeChunk(m, c, s, t)
          IN (/\ ret'.op = "VectorStore.store_knowledge"
              /\ ret'.arg = _generate_id(chunk)
              /\ \E e \in vs : SameKey(e.chunk, chunk)
              /\ VsStoreKnowledge(chunk))
             => /\ Cardinality(vs') = Cardinality(vs)
                /\ {e.chunk : e \in {x \in vs' : SameKey(x.chunk, chunk)}} = {chunk}
                /\ {e \in vs' : ~SameKey(e.chunk, chunk)}
                     = {e \in vs : ~SameKey(e.chunk, chunk)}]_vars

\* The last call stored a chunk onto a key that was already stored: the entry
\* it overwrote carried the first metadata bundle, the entry now stored under
\* that id carries the second, and another chunk of the same subject is stored
\* beside it.
C13_Witness ==
    /\ ret.op = "VectorStore.store_knowledge"
    /\ Cardinality(vs) = 2
    /\ \E old \in replaced, e \in vs :
          /\ e.id = ret.arg
          /\ old.id = e.id
          /\ SameKey(old.chunk, e.chunk)
          /\ old.chunk.last_validated = 1
          /\ old.chunk.source_url = "u1"
          /\ e.chunk.last_validated = 2
          /\ e.chunk.source_url = "u2"
          /\ e.chunk.contradictions = <<"n1">>
          /\ \E o \in vs : o.id # e.id /\ o.chunk.subject_id = e.chunk.subject_id

\* C14: a search returns only chunks stored under the subject it was asked
\* for, and returns nothing for a subject that has no stored chunk, whatever
\* the other subjects hold.
C14_SearchWithinSubject ==
    ret.op = "VectorStore.search"
        => /\ \A i \in 1..Len(ret.result.v) :
                 /\ ret.result.v[i] \in vs
                 /\ ret.result.v[i].chunk.subject_id = ret.arg
           /\ (\A e \in vs : e.chunk.subject_id # ret.arg) => ret.result.v = <<>>

\* A search returned a chunk while another subject also holds a chunk.
C14_Witness ==
    /\ ret.op = "VectorStore.search"
    /\ Len(ret.result.v) >= 1
    /\ \E e \in vs : e.chunk.subject_id # ret.arg /\ e.chunk.confidence = 1

\* ---------------------------------------------------------------------------
\* Properties of the workflow (SpecWorkflow)

SubjectOps ==
    {"start_curriculum_design", "start_research", "continue_research",
     "start_lesson", "generate_lesson", "get_research_progress"}

\* C15: with no active subject, neither cached nor persisted, each of
\* start_curriculum_design, start_research, continue_research, start_lesson,
\* generate_lesson and get_research_progress() raises ValueError 'No active
\* subject set' and leaves the workflow state, both stores, the pointer and
\* every agent's history as they were, with no model call.
C15_NoActiveSubjectRaises ==
    [][(/\ pc = "idle"
        /\ active_subject_id = None
        /\ ret'.op \in SubjectOps
        /\ ret'.arg = None
        /\ get_setting(db, "active_subject") = None)
       => /\ ret'.raised = "ValueError"
          /\ ret'.result = PyStr(NoActive)
          /\ UNCHANGED <<db, vs, state, active_subject_id, agent_vars>>]_vars

\* generate_lesson raised 'No active subject set' in a workflow that had left
\* IDLE, had talked to an agent and has facts stored.
C15_Witness ==
    /\ ret.op = "generate_lesson"
    /\ ret.raised = "ValueError"
    /\ ret.result = PyStr(NoActive)
    /\ active_subject_id = None
    /\ get_setting(db, "active_subject") = None
    /\ state = "researching"
    /\ Len(messages) >= 2
    /\ model_calls >= 1

\* C16: when an active subject is set but no learning goal exists for it,
\* start_curriculum_design and start_research raise ValueError "Subject '..'
\* not found", leave the workflow state unchanged and invoke no agent.
C16_MissingGoalRaises ==
    [][(/\ pc = "idle"
        /\ Orchestrator_get_active_subject(db, active_subject_id).result # None
        /\ ~ HasGoal(db, Orchestrator_get_active_subject(db, active_subject_id).result)
        /\ (StartCurriculumDesign \/ StartResearch))
       => /\ ret'.op \in {"start_curriculum_design", "start_research"}
          /\ ret'.raised = "ValueError"
          /\ ret'.result
               = PyStr(NotFound(Orchestrator_get_active_subject(db, active_subject_id).result))
          /\ state' = state
          /\ UNCHANGED <<db, vs, agent_vars>>]_vars

\* start_research raised "Subject 's2' not found" while the workflow was in
\* RESEARCHING for an earlier subject and the research agent had a history.
C16_Witness ==
    /\ ret.op = "start_research"
    /\ ret.raised = "ValueError"
    /\ ret.result = PyStr(NotFound("s2"))
    /\ ~ HasGoal(db, "s2")
    /\ Orchestrator_get_active_subject(db, active_subject_id).result = "s2"
    /\ state = "researching"
    /\ Len(messages) >= 2

\* C17: after initialize_subject(s, p) returns, the workflow state is IDLE, the
\* learning goal of s exists with purpose p, and s is the active subject both in
\* the cached pointer and in the persisted setting.
C17_InitializeSubjectPost ==
    [][\A s \in Subjects, p \in {"p1", "p2"} :
          (pc = "idle" /\ ret'.op = "initialize_subject" /\ ret'.arg = s
              /\ ret'.raised = None /\ InitializeSubject(s, p))
          => /\ state' = "idle"
             /\ HasGoal(db', s)
             /\ GoalRow(db', s).purpose_statement = p
             /\ active_subject_id' = s
             /\ get_setting(db', "active_subject") = s
             /\ Orchestrator_get_active_subject(db', active_subject_id').result = s]_vars

\* initialize_subject returned for s2 after another subject had been
\* initialized and the research agent had run: the state is IDLE and s2 is
\* active.
C17_Witness ==
    /\ ret.op = "initialize_subject"
    /\ ret.raised = None
    /\ ret.arg = "s2"
    /\ HasGoal(db, "s1")
    /\ HasGoal(db, "s2")
    /\ GoalRow(db, "s2").purpose_statement = "p2"
    /\ GoalRow(db, "s2").id = 2
    /\ active_subject_id = "s2"
    /\ state = "idle"
    /\ Len(messages) >= 2

ActiveSubject == Orchestrator_get_active_subject(db, active_subject_id).result

\* Checked under SpecSetter, where the state the call starts in is any member
\* of WorkflowState.
\* C18: from every workflow state, with an active subject (and its learning
\* goal, for the first two), start_curriculum_design leaves the state
\* INITIALIZING, start_research leaves it RESEARCHING through every turn of the
\* research agent up to its return, and start_lesson leaves it ASSESSING
\* through every turn of the assessment agent up to its return.
C18_StartTransitions ==
    [][/\ (pc = "idle" /\ ActiveSubject # None /\ HasGoal(db, ActiveSubject)
            /\ StartCurriculumDesign) => state' = "initializing"
       /\ (pc = "idle" /\ ActiveSubject # None /\ HasGoal(db, ActiveSubject)
            /\ StartResearch) => state' = "researching"
       /\ (Running /\ caller = "start_research")
            => state' = "researching"
       /\ (pc = "idle" /\ ActiveSubject # None /\ StartLesson)
            => state' = "assessing"
       /\ (Running /\ caller = "start_lesson")
            => state' = "assessing"]_vars

\* start_research returned the research agent's text after a tool round that
\* wrote to the stores.
C18_Witness ==
    /\ pc = "idle"
    /\ ret.op = "start_research"
    /\ ret.raised = None
    /\ ret.result.py = "str"
    /\ state = "researching"
    /\ model_calls >= 2
    /\ vs # {}

\* C19: generate_lesson with an active subject passes through
\* GENERATING_LESSON, obtains the assessment summary, moves to
\* DELIVERING_LESSON and then hands the topics and the summary to the lesson
\* agent; the call does not raise and leaves the state DELIVERING_LESSON.
C19_GenerateLessonDelivers ==
    [][(pc = "idle" /\ ActiveSubject # None /\ GenerateLesson)
       => /\ state' = "delivering_lesson"
          /\ "lesson" \in agents'
          /\ ret'.raised # "TypeError"]_vars

\* Checked under SpecContinue, where the state the call starts in is any member
\* of WorkflowState and the orchestrator can hold an assessment agent.
\* C20: continue_curriculum_design, continue_research and continue_assessment
\* leave the workflow state as it was before the call, at every step of the
\* call and whatever the state was.
C20_ContinueKeepsState ==
    [][/\ (pc = "idle" /\ (\/ ContinueCurriculumDesign
                            \/ \E r \in Titles : ContinueAssessment(r)
                            \/ \E u \in Titles : ContinueResearch(u)))
            => state' = state
       /\ (Running /\ caller \in {"continue_research", "continue_assessment"})
            => state' = state]_vars

\* continue_research returned the research agent's text after a tool round
\* while the workflow was in ASSESSING.
C20_Witness ==
    /\ pc = "idle"
    /\ ret.op = "continue_research"
    /\ ret.raised = None
    /\ ret.result.py = "str"
    /\ model_calls >= 2
    /\ state = "assessing"

\* C21: an orchestrator constructed over existing stores starts in IDLE
\* whatever the state of the instance before it, leaves both stores as they
\* are, and its get_active_subject returns the persisted active_subject
\* setting, None when none is stored; so does the first get_active_subject
\* after agents were read from the new instance.
C21_RestartResetsState ==
    [][/\ (pc = "idle" /\ ret'.op = "__init__" /\ NewOrchestrator)
            => /\ state' = "idle"
               /\ db' = db /\ vs' = vs
               /\ Orchestrator_get_active_subject(db', active_subject_id').result
                    = get_setting(db, "active_subject")
       /\ (pc = "idle" /\ ret.op \in {"__init__", "research_agent", "lesson_agent"}
            /\ active_subject_id = None
            /\ ret'.op = "get_active_subject" /\ GetActiveSubject)
            => ret'.result = OptStr(get_setting(db, "active_subject"))]_vars

\* get_active_subject returned the persisted s2 on an orchestrator that was
\* constructed over stores holding goals and facts and is in IDLE.
C21_Witness ==
    /\ ret.op = "get_active_subject"
    /\ ret.result = PyStr("s2")
    /\ get_setting(db, "active_subject") = "s2"
    /\ agents = {}
    /\ messages = <<>>
    /\ vs # {}
    /\ state = "idle"

\* C22: each of the four agents is constructed on its first access and kept:
\* an operation that reaches an agent property leaves that agent constructed,
\* and an agent once constructed stays the orchestrator's agent.
C22_AgentsConstructedOnAccess ==
    [][/\ agents \subseteq agents'
       /\ (pc = "idle" /\ ActiveSubject # None /\ HasGoal(db, ActiveSubject)
            /\ StartResearch) => "research" \in agents'
       /\ (pc = "idle" /\ ActiveSubject # None /\ (\E u \in Titles : ContinueResearch(u)))
            => "research" \in agents'
       /\ (pc = "idle" /\ ActiveSubject # None /\ HasGoal(db, ActiveSubject)
            /\ StartCurriculumDesign) => "curriculum" \in agents'
       /\ (pc = "idle" /\ ContinueCurriculumDesign) => "curriculum" \in agents'
       /\ (pc = "idle" /\ ActiveSubject # None /\ StartLesson)
            => "assessment" \in agents'
       /\ (pc = "idle" /\ (\E u \in Titles : ContinueAssessment(u)))
            => "assessment" \in agents'
       /\ (pc = "idle" /\ ActiveSubject # None /\ GenerateLesson)
            => {"assessment", "lesson"} \subseteq agents']_vars

\* ---------------------------------------------------------------------------
\* Properties of the generated tool definitions (SpecSchema)

RequiredOf(definition) ==
    {definition.v.input_schema.v.required.v[i].v :
        i \in 1..Len(definition.v.input_schema.v.required.v)}

PropertiesOf(definition) == DOMAIN definition.v.input_schema.v.properties.v

NamesWhere(sig, optional, default) ==
    {sig[i].name : i \in {j \in 1..Len(sig) :
        /\ sig[j].name \notin {"db", "vector_store"}
        /\ sig[j].optional \in optional
        /\ sig[j].default \in default}}

\* C23 as claimed: in the definition generated for a registered tool,
\* 'required' holds exactly the parameters not typed optional, those with a
\* default value included, and the optional ones are in 'properties' only.
C23_RequiredAreTheNonOptional ==
    ret.op = "_get_tool_definition"
        => /\ RequiredOf(ret.result) = NamesWhere(Signature(ret.arg), {FALSE}, BOOLEAN)
           /\ PropertiesOf(ret.result) = NamesWhere(Signature(ret.arg), BOOLEAN, BOOLEAN)

\* C23 as amended: 'required' holds exactly the parameters that are not typed
\* optional and have no default, which are the keyword arguments the tool
\* function cannot be called without; every parameter but db and vector_store
\* is in 'properties', the optional and the defaulted ones there only.
C23_RequiredAreTheUndefaulted ==
    ret.op = "_get_tool_definition"
        => /\ RequiredOf(ret.result) = NamesWhere(Signature(ret.arg), {FALSE}, {FALSE})
           /\ RequiredOf(ret.result) = Required(ret.arg)
           /\ PropertiesOf(ret.result) = Required(ret.arg) \cup Defaulted(ret.arg)
           /\ Len(ret.result.v.input_schema.v.required.v)
                = Cardinality(RequiredOf(ret.result))

\* The definition of save_knowledge_node: subject_id and title are required;
\* depth, with a default, and parent_id, typed optional, are properties only.
C23_Witness ==
    /\ ret.op = "_get_tool_definition"
    /\ ret.arg = "save_knowledge_node"
    /\ RequiredOf(ret.result) = {"subject_id", "title"}
    /\ {"depth", "parent_id"} \subseteq PropertiesOf(ret.result)
    /\ ret.result.v.input_schema.v.properties.v["depth"] = PyDict([type |-> PyStr("integer")])
    /\ db.learning_goals # {}

\* ---------------------------------------------------------------------------
\* Properties of the CLI research session (SpecCli)

\* C24: from the thread's start to the print, a step of the main thread writes
\* neither store, nor the workflow state, nor the active-subject pointer, nor
\* anything of the agents: it reads the parts of a progress snapshot, which it
\* always obtains, or asks whether the thread is alive.  It leaves the thread's
\* result alone until it prints it, and it prints it only once the thread has
\* ended.
C24_MainThreadOnlyReads ==
    [][/\ (main' # main)
            => UNCHANGED <<db, vs, state, active_subject_id, agent_vars>>
       /\ (main' # main /\ main.at # "print") => ret' = ret
       /\ (main' # main /\ main.at \in {"initial", "render", "final"})
            => main'.at # "command"
       /\ (main' # main /\ main.at = "print")
            => /\ ~ThreadAlive
               /\ pc = "idle"
               /\ ret.op \in {"start_research", "continue_research"}
               /\ ret'.op = "print"]_vars

\* The thread is alive and one of its tool rounds has changed the persisted
\* active subject.  The main thread has shown a snapshot of the subject the
\* session started with and is in the middle of the next render, the tree read
\* and the counts not yet: the pointer still names that subject.
C24_Witness ==
    /\ Running
    /\ model_calls >= 1
    /\ state = "researching"
    /\ main.at = "render"
    /\ main.step = 2
    /\ main.subject = "s1"
    /\ main.shown # PyNone
    /\ main.shown.v.subject_id = PyStr("s1")
    /\ active_subject_id = "s1"
    /\ get_setting(db, "active_subject") = "s2"

\* ---------------------------------------------------------------------------
\* Properties of the store_knowledge tool (SpecLoop)

WellFormed(name, input) ==
    /\ Required(name) \subseteq DOMAIN input
    /\ DOMAIN input \subseteq Required(name) \cup Defaulted(name)
    /\ \A k \in DOMAIN input \cap StrParams : input[k] # JsonObject

\* C25: a store_knowledge call with well-formed arguments succeeds whether or
\* not the subject has a learning goal and whether or not a knowledge node is
\* titled as its topic path; the fact is stored, the database is untouched,
\* and progress reporting raises nothing: without such a node the fact shows in
\* no node entry.
C25_StoreKnowledgeNeverRejects ==
    \A i \in 1..Len(exec_log) : \A m \in 1..Len(exec_log[i]) :
        LET e == exec_log[i][m]
            progress == Orchestrator_get_research_progress(db, vs, None, e.input.subject_id)
        IN (e.name = "store_knowledge" /\ WellFormed(e.name, e.input))
           => /\ e.raised = None
              /\ e.result = PyDict([status |-> PyStr("stored"),
                                    subject_id |-> PyStr(e.input.subject_id),
                                    topic_path |-> PyStr(e.input.topic_path)])
              /\ \E c \in vs : /\ c.chunk.subject_id = e.input.subject_id
                                /\ c.chunk.topic_path = e.input.topic_path
                                /\ c.chunk.content = e.input.content
              /\ progress.raised = None
              /\ progress.result.v.total_facts.v >= 1
              /\ \A k \in 1..Len(progress.result.v.nodes.v) :
                    LET entry == progress.result.v.nodes.v[k].v
                    IN entry.fact_count.v
                        = IF entry.title.v = e.input.topic_path THEN 1 ELSE 0

\* store_knowledge succeeded for a subject that had neither a learning goal nor
\* a knowledge node when the fact was stored.
C25_Witness ==
    \E i \in 1..Len(exec_log) : \E m \in 1..Len(exec_log[i]) :
        /\ exec_log[i][m].name = "store_knowledge"
        /\ exec_log[i][m].raised = None
        /\ exec_log[i][m].result.v.status = PyStr("stored")
        /\ ~ HasGoal(exec_log[i][m].before.db, exec_log[i][m].input.subject_id)
        /\ exec_log[i][m].before.db.knowledge_nodes = {}
        /\ vs # {}

\* ---------------------------------------------------------------------------
\* Termination of BaseAgent.run (SpecLoop, SpecLoopFair)

LastResponse == responses[Len(responses)]

\* C26: BaseAgent.run ends exactly when the model returns a response without
\* tool_use blocks: a run that has ended saw such a response last, and a run
\* that is still looping saw a response with tool_use blocks last.
C26_EndsExactlyOnText ==
    responses # <<>> =>
        (pc = "idle" <=> ToolUses(LastResponse) = <<>>)

\* A response with tool_use blocks whose results serialize continues the loop,
\* whatever the number of model calls made so far.
C26_NoIterationCap ==
    [][(pc = "awaiting_model" /\ pc' # "idle" /\ responses' # responses)
        => /\ ToolUses(responses'[Len(responses')]) # <<>>
           /\ model_calls' = model_calls + 1
           /\ Len(messages') = Len(messages) + (IF pc' = "awaiting_model" THEN 2 ELSE 1)]_vars

\* Under the fairness assumption a pending run eventually ends.
C26_EventuallyEnds == Running ~> (pc = "idle")

\* ---------------------------------------------------------------------------
\* Tool calls of one loop iteration (SpecLoop)

IsErrorResult(r) == r.py = "dict" /\ "error" \in DOMAIN r.v

\* The stores as the m-th executor call of the i-th iteration left them.
StoresAfter(i, m) ==
    IF m < Len(exec_log[i]) THEN exec_log[i][m + 1].before
    ELSE IF i < Len(exec_log) /\ exec_log[i + 1] # <<>> THEN exec_log[i + 1][1].before
    ELSE [db |-> db, vs |-> vs]

\* C27: in an iteration where a requested tool returned an error, every tool
\* requested in that iteration has been executed once the iteration is over, and
\* the erroring call left the stores as the calls before it had left them.
C27_ToolCallsIndependent ==
    \A i \in 1..Len(exec_log) : \A m \in 1..Len(exec_log[i]) :
        IsErrorResult(exec_log[i][m].result) =>
            /\ (i < Len(exec_log) \/ pc # "running_tools")
                    => Len(exec_log[i]) = Len(ToolUses(responses[i]))
            /\ StoresAfter(i, m) = exec_log[i][m].before

\* ---------------------------------------------------------------------------
\* Shape of the message history (SpecLoop)

HasToolUse(msg) ==
    msg.content.py = "list" /\ ToolUses(msg.content.v) # <<>>

\* The turn holds exactly one tool_result per tool_use block of `call`, in order.
AnswersToolUses(msg, call) ==
    /\ msg.content.py = "list"
    /\ Len(msg.content.v) = Len(ToolUses(call.content.v))
    /\ \A m \in 1..Len(msg.content.v) :
            /\ msg.content.v[m].type = "tool_result"
            /\ msg.content.v[m].tool_use_id = ToolUses(call.content.v)[m].id

\* C28: after a normal return of run the history alternates user and assistant
\* turns, starts with a user turn, ends with an assistant text turn, and every
\* assistant turn with tool_use blocks is followed by a user turn holding one
\* tool_result per block.
C28_HistoryShape ==
    (pc = "idle" /\ ret.op = "run" /\ ret.raised = None) =>
        /\ messages # <<>>
        /\ \A j \in 1..Len(messages) :
                messages[j].role = IF j % 2 = 1 THEN "user" ELSE "assistant"
        /\ messages[Len(messages)].role = "assistant"
        /\ messages[Len(messages)].content.py = "str"
        /\ \A j \in 1..Len(messages) :
                (messages[j].role = "assistant" /\ HasToolUse(messages[j])) =>
                    /\ j < Len(messages)
                    /\ messages[j + 1].role = "user"
                    /\ AnswersToolUses(messages[j + 1], messages[j])

\* ---------------------------------------------------------------------------
\* The knowledge tree query (SpecTree)

\* C29: get_knowledge_tree(s) returns exactly the rows whose subject is s, each
\* once, ordered by depth and, within a depth, by id, whatever inserts and
\* updates came before.
C29_TreeQuery ==
    ret.op = "Database.get_knowledge_tree" =>
        LET r == ret.result.v
            rows == {n \in db.knowledge_nodes : n.subject_id = ret.arg}
        IN /\ {r[i] : i \in 1..Len(r)} = rows
           /\ Len(r) = Cardinality(rows)
           /\ \A i \in 1..Len(r) : \A j \in 1..Len(r) :
                i < j => \/ r[i].depth < r[j].depth
                         \/ r[i].depth = r[j].depth /\ r[i].id < r[j].id

\* A query that returned a later row first because an update made it the
\* shallower one, while the other subject holds no row or another.
C29_Witness ==
    /\ ret.op = "Database.get_knowledge_tree"
    /\ Len(ret.result.v) = 2
    /\ ret.result.v[1].id > ret.result.v[2].id
    /\ ret.result.v[1].depth < ret.result.v[2].depth

\* ---------------------------------------------------------------------------
\* The progress display (SpecDisplay)

\* Every node of the subject is a root of depth 0 or one level below its parent.
DepthsFollowParents(subject_id) ==
    \A n \in db.knowledge_nodes : n.subject_id = subject_id =>
        IF n.parent_id = 0 THEN n.depth = 0
        ELSE \E p \in db.knowledge_nodes :
                p.id = n.parent_id /\ p.subject_id = subject_id /\ n.depth = p.depth + 1

\* C30: on a tree whose depths follow the parents, build_tree adds every node
\* of depth d > 0 beneath the node that is its stored parent, also when the
\* subject has several nodes at depth d - 1.
C30_AttachedToStoredParent ==
    (ret.op = "build_tree" /\ ret.raised = None /\ DepthsFollowParents(ret.arg)) =>
        \A k \in 1..Len(ret.result.v) :
            \A n \in db.knowledge_nodes :
                (n.id = ret.result.v[k].id /\ n.depth > 0) =>
                    ret.result.v[k].under = n.parent_id

\* ---------------------------------------------------------------------------
\* Learning goal rows (SpecDelete)

\* C31: there is at most one learning goal row per subject; saving a goal for a
\* subject that has one keeps the row's id and writes the new purpose; a row
\* disappears only in a delete_subject call for its subject that returns true.
C31_OneGoalPerSubject ==
    [][\A s \in Subjects :
        /\ Cardinality({g \in db'.learning_goals : g.subject_id = s}) <= 1
        /\ (HasGoal(db, s) /\ HasGoal(db', s)) =>
                GoalRow(db', s).id = GoalRow(db, s).id
        /\ (HasGoal(db, s) /\ ~ HasGoal(db', s)) =>
                /\ ret'.op = "delete_subject"
                /\ ret'.arg = s
                /\ ret'.result = PyBool(TRUE)
        /\ \A p \in Purposes \cup {"p2"} :
                (pc = "idle" /\ InitializeSubject(s, p)) =>
                    /\ HasGoal(db', s)
                    /\ GoalRow(db', s).purpose_statement = p
                    /\ \A o \in Subjects \ {s} :
                            {g \in db'.learning_goals : g.subject_id = o}
                                = {g \in db.learning_goals : g.subject_id = o}]_vars

\* initialize_subject has just saved a goal for a subject that had one: the
\* sequence has advanced, the row kept its id and holds the new purpose.
C31_Witness ==
    /\ ret.op = "initialize_subject" /\ ret.arg = "s2"
    /\ db.goal_seq = 2
    /\ GoalRow(db, "s2").id = 1
    /\ GoalRow(db, "s2").purpose_statement = "p2"

\* ---------------------------------------------------------------------------
\* Saving knowledge nodes through the tool (SpecLoop)

WithoutId(input) == [k \in DOMAIN input \ {"id"} |-> input[k]]

\* C32: a save_knowledge_node call without an id adds exactly one node under an
\* id no node had; a call with the id of an existing node changes that node in
\* place and leaves the number of nodes unchanged.
C32_SaveInsertsOrUpdates ==
    \A i \in 1..Len(exec_log) : \A m \in 1..Len(exec_log[i]) :
        LET e == exec_log[i][m]
            before == e.before.db.knowledge_nodes
            after == StoresAfter(i, m).db.knowledge_nodes
        IN (e.name = "save_knowledge_node" /\ WellFormed(e.name, WithoutId(e.input))) =>
            IF "id" \notin DOMAIN e.input
            THEN /\ ~ IsErrorResult(e.result)
                 /\ e.result.v.id.v \notin {n.id : n \in before}
                 /\ Cardinality(after) = Cardinality(before) + 1
                 /\ \E n \in after : n.id = e.result.v.id.v /\ n.title = e.input.title
            ELSE (\E n \in before : n.id = e.input.id) =>
                    /\ ~ IsErrorResult(e.result)
                    /\ Cardinality(after) = Cardinality(before)
                    /\ \E n \in after : n.id = e.input.id /\ n.title = e.input.title

\* ---------------------------------------------------------------------------
\* Frame of progress reporting (SpecProgress)

\* C33: get_research_progress, with a subject or without, returning or raising,
\* leaves the relational store, the vector store and the workflow state as they
\* were.
C33_ProgressReadOnly ==
    [][\A a \in Subjects \cup {None} :
        (pc = "idle" /\ GetResearchProgress(a)) =>
            /\ db' = db
            /\ vs' = vs
            /\ state' = state
            /\ ret'.op = "get_research_progress"
            /\ ret'.raised = IF a = None /\ get_setting(db, "active_subject") = None
                                 /\ active_subject_id = None
                             THEN "ValueError" ELSE None]_vars

\* A snapshot was returned for a subject with a node and a stored fact.
C33_Witness ==
    /\ ret.op = "get_research_progress"
    /\ ret.raised = None
    /\ ret.result.v.total_facts.v >= 1
    /\ Len(ret.result.v.nodes.v) >= 1

\* ---------------------------------------------------------------------------
\* Deleting subjects (Spec)

\* C34: delete_subject for a subject without a learning goal returns false and
\* changes nothing: the chunks stored under the subject, the in-memory pointer,
\* the persisted setting and the rest of the relational store are as before.
C34_DeleteUnknownSubject ==
    [][\A s \in Subjects :
        (pc = "idle" /\ ~ HasGoal(db, s) /\ DeleteSubject(s, FALSE, 0)) =>
            /\ ret'.raised = None
            /\ ret'.result = PyBool(FALSE)
            /\ {c \in vs' : c.chunk.subject_id = s} = {c \in vs : c.chunk.subject_id = s}
            /\ active_subject_id' = active_subject_id
            /\ get_setting(db', "active_subject") = get_setting(db, "active_subject")
            /\ db' = db]_vars

\* ---------------------------------------------------------------------------
\* Deleting a subject that exists (SpecDelete)

NodesOf(d, subject_id) == {n \in d.knowledge_nodes : n.subject_id = subject_id}
ChunksOf(v, subject_id) == {c \in v : c.chunk.subject_id = subject_id}

\* C35: a delete_subject(s) that returns true leaves no chunk and no node of s,
\* and the chunks and nodes of the other subjects as they were; an
\* initialize_subject(s, p) right after it reports an empty tree and no facts.
C35_DeleteCompleteAndScoped ==
    [][\A s \in Subjects :
        /\ (pc = "idle" /\ HasGoal(db, s) /\ DeleteSubject(s, FALSE, 0)) =>
                /\ ret'.result = PyBool(TRUE)
                /\ ChunksOf(vs', s) = {}
                /\ NodesOf(db', s) = {}
                /\ \A o \in Subjects \ {s} :
                        /\ ChunksOf(vs', o) = ChunksOf(vs, o)
                        /\ NodesOf(db', o) = NodesOf(db, o)
        /\ \A p \in Purposes :
                (/\ ret.op = "delete_subject" /\ ret.arg = s
                 /\ ret.result = PyBool(TRUE)
                 /\ InitializeSubject(s, p)) =>
                    LET progress == Orchestrator_get_research_progress(
                                        db', vs', active_subject_id', None)
                    IN /\ progress.raised = None
                       /\ progress.result.v.subject_id = PyStr(s)
                       /\ progress.result.v.nodes = PyList(<<>>)
                       /\ progress.result.v.total_facts = PyInt(0)]_vars

\* delete_subject returned true for a subject whose node is gone while the other
\* subject still has its node and its fact.
C35_Witness ==
    /\ ret.op = "delete_subject" /\ ret.arg = "s1" /\ ret.result = PyBool(TRUE)
    /\ db.node_seq = 2
    /\ Cardinality(NodesOf(db, "s2")) = 1
    /\ NodesOf(db, "s1") = {}
    /\ ChunksOf(vs, "s2") # {}
    /\ ChunksOf(vs, "s1") = {}

\* ---------------------------------------------------------------------------
\* The conversation of an assessment (SpecWorkflow)

\* C36: start_lesson with an active subject sends the opening prompt on an empty
\* conversation: the assessment agent's history holds that one user turn when
\* the model is called.
C36_LessonStartsEmpty ==
    [][(/\ pc = "idle"
        /\ Orchestrator_get_active_subject(db, active_subject_id).result # None
        /\ StartLesson) =>
            /\ pc' = "awaiting_model"
            /\ caller' = "start_lesson"
            /\ "assessment" \in agents'
            /\ Len(messages') = 1
            /\ messages'[1].role = "user"]_vars

\* ---------------------------------------------------------------------------
\* Reachable workflow states (SpecWorkflow)

\* C37: the state is never EXERCISING, and once an operation has returned
\* normally it is IDLE, INITIALIZING, RESEARCHING, ASSESSING or
\* DELIVERING_LESSON: GENERATING_LESSON is held only inside generate_lesson.
C37_ReachableStates ==
    /\ state # "exercising"
    /\ (pc = "idle" /\ ret.raised = None) =>
            state \in {"idle", "initializing", "researching", "assessing",
                       "delivering_lesson"}

\* ---------------------------------------------------------------------------
\* The active subject and its learning goal (Spec)

\* C38: whenever get_active_subject returns a subject id, a learning goal exists
\* for that id.
C38_ActiveSubjectHasGoal ==
    (ret.op = "get_active_subject" /\ ret.result # PyNone) =>
        HasGoal(db, ret.result.v)

\* ---------------------------------------------------------------------------
\* The workflow state after a failure (SpecRaise)

\* C39: an operation that raises after it assigned the workflow state leaves
\* that state in place: INITIALIZING after a failed initialize_subject or
\* start_curriculum_design, RESEARCHING after a failed research agent call,
\* ASSESSING after a failed start_lesson, at the agent property or inside the
\* assessment agent's call, GENERATING_LESSON after a failed assessment
\* summary, DELIVERING_LESSON after a failed lesson agent call.
C39_NoRollback ==
    [][/\ \A s \in Subjects : \A p \in Purposes : \A k \in {1, 2, 3} :
            (pc = "idle" /\ InitializeSubjectFails(s, p, k)) =>
                ret'.raised # None /\ state' = "initializing"
       /\ (pc = "idle" /\ StartCurriculumDesign /\ ret'.raised = "TypeError") =>
                state' = "initializing"
       /\ (pc = "idle" /\ StartLesson /\ ret'.raised = "TypeError") =>
                state' = "assessing"
       /\ (/\ pc = "idle" /\ GenerateLesson /\ pc' = "idle"
           /\ ret'.raised = "TypeError") =>
                state' = "generating_lesson"
       /\ (Running /\ pc' = "idle" /\ ret'.raised # None) =>
                /\ ret'.op = caller
                /\ state' = CASE caller = "start_research" -> "researching"
                              [] caller = "start_lesson" -> "assessing"
                              [] SummaryRun -> "generating_lesson"
                              [] caller = "generate_lesson" -> "delivering_lesson"
                              [] OTHER -> state]_vars

\* generate_lesson has just raised out of the lesson agent's call, on an
\* orchestrator that holds a supplied assessment agent and the lesson agent the
\* call constructed: it is in DELIVERING_LESSON, the assessment agent's history
\* ends with the summary, and the lesson agent's with the lesson prompt, which
\* names the node saved while the summary was awaited.
C39_Witness ==
    /\ pc = "idle"
    /\ ret.op = "generate_lesson" /\ ret.raised = "Exception"
    /\ state = "delivering_lesson"
    /\ {"assessment", "lesson"} \subseteq agents
    /\ held.agent = "lesson"
    /\ Len(held.messages["assessment"]) >= 2
    /\ held.messages["assessment"][Len(held.messages["assessment"])].role = "assistant"
    /\ model_calls = 1
    /\ messages[Len(messages)].content =
            LessonPrompt("s1", <<"T1">>, "done")

\* ---------------------------------------------------------------------------
\* The chunk id and the subject (SpecIds)

\* C40: storing a fact never replaces a stored fact whose (subject, topic path,
\* content) triple differs from its own, in particular a fact of another
\* subject, also when subject ids or topic paths contain ':'.
C40_IdSeparatesSubjects ==
    [][\A m \in Metadata : \A c \in Contents :
       \A s \in ColonSubjects : \A t \in ColonTopicPaths :
            VsStoreKnowledge(KnowledgeChunk(m, c, s, t)) =>
                \A e \in vs :
                    (<<e.chunk.subject_id, e.chunk.topic_path, e.chunk.content>>
                        # <<s, t, c>>) => e \in vs']_vars

====
